---- MODULE Spec2Model ----
(***************************************************************************)
(* Lifecycle orchestration core of aqm: the Micro orchestrator             *)
(* (registration options, Micro.Run) and the runners it drives.            *)
(*                                                                         *)
(* Go slices are 0-indexed, TLA+ sequences 1-indexed: Go index g is        *)
(* position g+1 here.  A function value kept in a list is represented by   *)
(* the identity of the component that owns it.                             *)
(***************************************************************************)
EXTENDS Integers, Sequences, FiniteSets, TLC

\* Bounds of the model.
MaxComps == 3      \* lifecycle components registered with WithLifecycle
MaxRunners == 2    \* runners registered
MaxHooks == 1      \* shutdown hooks registered
MaxOpts == 4       \* options applied by NewMicro altogether

VARIABLES
    startFuncs,     \* Micro.startFuncs: component ids, in registration order
    stopFuncs,      \* Micro.stopFuncs
    mRunners,       \* Micro.runners: runner kinds, in registration order
    mShutdown,      \* Micro.shutdown: hook ids
    httpConfigured, \* Micro.httpConfigured
    nComps,         \* number of lifecycle components registered so far
    pc,             \* position of the goroutine executing NewMicro / Run
    startFns,       \* Run's snapshot of startFuncs
    stopFns,        \* Run's snapshot of stopFuncs
    runners,        \* Run's snapshot of runners
    shutdown,       \* Run's snapshot of shutdown
    i,              \* Run's current loop index (1-based)
    j,              \* Run's rollback index (1-based)
    err,            \* Run's err local during lifecycle startup / rollback
    aggErr,         \* Run's aggErr local during teardown
    result,         \* value returned by Run (meaningful when pc = "done")
    ctxDone,        \* the context passed to Run is cancelled
    srv,            \* per snapshot runner: state of its background serve loop
    log,            \* history of calls made by Run and of their returns
    rnr,            \* one HTTP or gRPC runner driven directly: see Runner below
    fs              \* a free-standing call: Start, Shutdown, LifecycleHooks or options

vars == <<startFuncs, stopFuncs, mRunners, mShutdown, httpConfigured, nComps,
          pc, startFns, stopFns, runners, shutdown, i, j, err, aggErr, result,
          ctxDone, srv, log, rnr, fs>>

auxVars == <<rnr, fs>>

cfgVars == <<startFuncs, stopFuncs, mRunners, mShutdown, httpConfigured, nComps>>
snapVars == <<startFns, stopFns, runners, shutdown>>

(***************************************************************************)
(* Error values.  nil, a leaf error identified by the call that produced   *)
(* it, fmt.Errorf("tag: %w", e) and errors.Join.                           *)
(***************************************************************************)
NilErr == [k |-> "nil"]

Leaf(op, idx) == [k |-> "leaf", op |-> op, idx |-> idx]

Wrapf(tag, e) == [k |-> "wrap", tag |-> tag, inner |-> e]

\* errors.Join(a, b): nil operands are discarded, nil when none is left.
Join(a, b) ==
    LET xs == SelectSeq(<<a, b>>, LAMBDA e : e # NilErr)
    IN  IF xs = <<>> THEN NilErr ELSE [k |-> "join", errs |-> xs]

\* errors.Is(e, target): target is in the tree that Unwrap spans.
RECURSIVE ErrIs(_, _)
ErrIs(e, target) ==
    IF e = target THEN TRUE
    ELSE IF e.k = "wrap" THEN ErrIs(e.inner, target)
    ELSE IF e.k = "join" THEN \E n \in 1..Len(e.errs) : ErrIs(e.errs[n], target)
    ELSE FALSE

RunnerKinds == {"http", "grpc", "custom"}

\* newHTTPServerRunner / newGRPCServerRunner: a runner as constructed, with
\* an empty, open error channel of capacity 1 and no goroutine, together with
\* the position of the goroutine that calls its Start and Stop.
NewRunner(kind) ==
    [kind |-> kind,
     sp |-> "idle",          \* position of the caller: idle, shutdown, select, drain
     errBuf |-> <<>>,        \* r.errCh: buffered values
     errClosed |-> FALSE,    \* r.errCh is closed
     gor |-> <<>>,           \* serve goroutines launched by Start, in order
     server |-> "new",       \* the server: new, or shut once a stop was requested
     inflight |-> FALSE,     \* the server has work in flight
     timer |-> "off",        \* the 5-second bound of the Stop in progress
     ctx |-> FALSE,          \* the ctx given to the Stop in progress is done
     gs |-> "none",          \* gRPC: the goroutine calling GracefulStop
     forced |-> FALSE,       \* gRPC: server.Stop() was issued by this Stop
     taken |-> "",           \* how the Stop in progress / last Stop was resolved
     order |-> <<>>,         \* events of the Stop in progress, in order of occurrence
     drained |-> FALSE,      \* the Stop in progress / last Stop has read r.errCh
     got |-> FALSE,          \* that read received an error
     ret |-> NilErr,         \* value returned by the last call
     lastOp |-> "",          \* the last call that returned: start or stop
     starts |-> 0,           \* number of Start calls made
     stops |-> 0,            \* number of Stop calls made
     panicked |-> FALSE]     \* the process died of a channel panic

\* No runner is driven directly.
NoRunner == NewRunner("none")

\* No call of the free function Start has been made.
NoCall == [pc |-> "none"]

MicroInit ==
    /\ startFuncs = <<>>
    /\ stopFuncs = <<>>
    /\ mRunners = <<>>
    /\ mShutdown = <<>>
    /\ httpConfigured = FALSE
    /\ nComps = 0
    /\ pc = "config"
    /\ startFns = <<>>
    /\ stopFns = <<>>
    /\ runners = <<>>
    /\ shutdown = <<>>
    /\ i = 0
    /\ j = 0
    /\ err = NilErr
    /\ aggErr = NilErr
    /\ result = NilErr
    /\ ctxDone = FALSE
    /\ srv = <<>>
    /\ log = <<>>

\* A Micro under construction; no runner or free function is driven directly.
Init ==
    /\ MicroInit
    /\ rnr = NoRunner
    /\ fs = NoCall


(***************************************************************************)
(* Configuration phase: NewMicro applies the options one after another.    *)
(***************************************************************************)
\* Number of options applied so far (each option below registers one thing).
nOpts == nComps + Len(mRunners) + Len(mShutdown)

\* Micro.addStart / Micro.addStop / Micro.addRunner / Micro.addShutdown
addStart(fns, fn) == Append(fns, fn)

addStop(fns, fn) == Append(fns, fn)

addRunner(rs, r) == Append(rs, r)

addShutdown(hs, fn) == Append(hs, fn)

\* WithLifecycle(component): the component is asserted against Startable and
\* against Stoppable independently.
WithLifecycle(startable, stoppable) ==
    /\ pc = "config"
    /\ nOpts < MaxOpts
    /\ nComps < MaxComps
    /\ nComps' = nComps + 1
    /\ startFuncs' = IF startable THEN addStart(startFuncs, nComps + 1) ELSE startFuncs
    /\ stopFuncs' = IF stoppable THEN addStop(stopFuncs, nComps + 1) ELSE stopFuncs
    /\ UNCHANGED <<mRunners, mShutdown, httpConfigured>>
    /\ UNCHANGED <<pc, snapVars, i, j, err, aggErr, result, ctxDone, srv, log, auxVars>>

\* WithRunner(r) with a caller-supplied Runner implementation.
WithRunner ==
    /\ pc = "config"
    /\ nOpts < MaxOpts
    /\ Len(mRunners) < MaxRunners
    /\ mRunners' = addRunner(mRunners, "custom")
    /\ UNCHANGED <<startFuncs, stopFuncs, mShutdown, httpConfigured, nComps>>
    /\ UNCHANGED <<pc, snapVars, i, j, err, aggErr, result, ctxDone, srv, log, auxVars>>

\* WithHTTPServer(addrKey, factories...) with modules that are neither
\* Startable nor Stoppable.
WithHTTPServer ==
    /\ pc = "config"
    /\ nOpts < MaxOpts
    /\ ~httpConfigured
    /\ Len(mRunners) < MaxRunners
    /\ httpConfigured' = TRUE
    /\ mRunners' = Append(mRunners, "http")
    /\ UNCHANGED <<startFuncs, stopFuncs, mShutdown, nComps>>
    /\ UNCHANGED <<pc, snapVars, i, j, err, aggErr, result, ctxDone, srv, log, auxVars>>

\* WithGRPCServer(addrKey, factories...) with services that are neither
\* Startable nor Stoppable.
WithGRPCServer ==
    /\ pc = "config"
    /\ nOpts < MaxOpts
    /\ Len(mRunners) < MaxRunners
    /\ mRunners' = Append(mRunners, "grpc")
    /\ UNCHANGED <<startFuncs, stopFuncs, mShutdown, httpConfigured, nComps>>
    /\ UNCHANGED <<pc, snapVars, i, j, err, aggErr, result, ctxDone, srv, log, auxVars>>

\* WithShutdown(fn)
WithShutdown ==
    /\ pc = "config"
    /\ nOpts < MaxOpts
    /\ Len(mShutdown) < MaxHooks
    /\ mShutdown' = addShutdown(mShutdown, Len(mShutdown) + 1)
    /\ UNCHANGED <<startFuncs, stopFuncs, mRunners, httpConfigured, nComps>>
    /\ UNCHANGED <<pc, snapVars, i, j, err, aggErr, result, ctxDone, srv, log, auxVars>>

(***************************************************************************)
(* Micro.Run                                                               *)
(***************************************************************************)
\* Entries of the history: a call made by Run with the context it passes
\* ("caller" is Run's own ctx, "background" is context.Background()), and the
\* return of that call with the error it returned and, for the Stop of an
\* HTTP or gRPC runner, what ended it.
Call(op, idx, ctx) ==
    [op |-> op, idx |-> idx, ev |-> "call", ctx |-> ctx, e |-> NilErr, via |-> ""]

Ret(op, idx, e, via) ==
    [op |-> op, idx |-> idx, ev |-> "ret", ctx |-> "", e |-> e, via |-> via]

\* The error a caller-supplied function returns: nil or its own error.
Res(ok, op, idx) == IF ok THEN NilErr ELSE Leaf(op, idx)

\* Entry of Run: the four lists are copied under the read lock.
RunEnter ==
    /\ pc = "config"
    /\ runners' = mRunners
    /\ shutdown' = mShutdown
    /\ startFns' = startFuncs
    /\ stopFns' = stopFuncs
    /\ srv' = [n \in 1..Len(mRunners) |-> "idle"]
    /\ i' = 1
    /\ pc' = "starts"
    /\ UNCHANGED <<cfgVars, j, err, aggErr, result, ctxDone, log, auxVars>>

\* for i, start := range startFns { start(ctx) ...
CallStart ==
    /\ pc = "starts"
    /\ i <= Len(startFns)
    /\ log' = Append(log, Call("start", i, "caller"))
    /\ pc' = "inStart"
    /\ UNCHANGED <<cfgVars, snapVars, i, j, err, aggErr, result, ctxDone, srv, auxVars>>

\* Variant of RollbackFrom: the rollback also stops the component whose
\* start failed.
RollbackFromFailing(k) == k

\* First index visited by the rollback loop after start i failed.
RollbackFrom(k) == k - 1

\* Variant of StartReturn: the error of a start function is dropped and the
\* range goes on.
StartReturnIgnoreErr(ok) ==
    /\ pc = "inStart"
    /\ log' = Append(log, Ret("start", i, Res(ok, "start", i), ""))
    /\ i' = i + 1
    /\ pc' = "starts"
    /\ UNCHANGED <<cfgVars, snapVars, j, err, aggErr, result, ctxDone, srv, auxVars>>

StartReturn(ok) ==
    /\ pc = "inStart"
    /\ log' = Append(log, Ret("start", i, Res(ok, "start", i), ""))
    /\ IF ok
         THEN /\ i' = i + 1
              /\ pc' = "starts"
              /\ UNCHANGED <<j, err>>
         ELSE /\ err' = Res(ok, "start", i)
              /\ j' = RollbackFrom(i)
              /\ pc' = "rollback"
              /\ UNCHANGED i
    /\ UNCHANGED <<cfgVars, snapVars, aggErr, result, ctxDone, srv, auxVars>>

\* Variant of CallRollback: the rollback stop is given the ctx of Run.
CallRollbackCallerCtx ==
    /\ pc = "rollback"
    /\ j >= 1
    /\ j <= Len(stopFns)
    /\ log' = Append(log, Call("stop", j, "caller"))
    /\ pc' = "inRollback"
    /\ UNCHANGED <<cfgVars, snapVars, i, j, err, aggErr, result, ctxDone, srv, auxVars>>

\* stopFns[j](context.Background()) inside the rollback loop.
CallRollback ==
    /\ pc = "rollback"
    /\ j >= 1
    /\ j <= Len(stopFns)
    /\ log' = Append(log, Call("stop", j, "background"))
    /\ pc' = "inRollback"
    /\ UNCHANGED <<cfgVars, snapVars, i, j, err, aggErr, result, ctxDone, srv, auxVars>>

\* stopFns[j] with j outside the slice: runtime panic, Run does not return.
RollbackPanic ==
    /\ pc = "rollback"
    /\ j >= 1
    /\ j > Len(stopFns)
    /\ pc' = "panicked"
    /\ UNCHANGED <<cfgVars, snapVars, i, j, err, aggErr, result, ctxDone, srv, log, auxVars>>

\* Variant of RollbackErr: the rollback error replaces the start error.
RollbackErrReplace(e, stopErr) ==
    IF stopErr # NilErr THEN Wrapf("lifecycle rollback", stopErr) ELSE e

\* err after rollback stop j returned stopErr.
RollbackErr(e, stopErr) ==
    IF stopErr # NilErr THEN Join(e, Wrapf("lifecycle rollback", stopErr)) ELSE e

RollbackReturn(ok) ==
    /\ pc = "inRollback"
    /\ log' = Append(log, Ret("stop", j, Res(ok, "stop", j), ""))
    /\ err' = RollbackErr(err, Res(ok, "stop", j))
    /\ j' = j - 1
    /\ pc' = "rollback"
    /\ UNCHANGED <<cfgVars, snapVars, i, aggErr, result, ctxDone, srv, auxVars>>

\* Variant of RollbackDone: the return after the rollback is missing, the
\* range over startFns goes on.
RollbackDoneNoReturn ==
    /\ pc = "rollback"
    /\ j < 1
    /\ i' = i + 1
    /\ pc' = "starts"
    /\ UNCHANGED <<cfgVars, snapVars, j, err, aggErr, result, ctxDone, srv, log, auxVars>>

\* return fmt.Errorf("lifecycle start: %w", err)
RollbackDone ==
    /\ pc = "rollback"
    /\ j < 1
    /\ result' = Wrapf("lifecycle start", err)
    /\ pc' = "done"
    /\ UNCHANGED <<cfgVars, snapVars, i, j, err, aggErr, ctxDone, srv, log, auxVars>>

\* The range over startFns is exhausted: on to the runners.
StartsDone ==
    /\ pc = "starts"
    /\ i > Len(startFns)
    /\ i' = 1
    /\ pc' = "runners"
    /\ UNCHANGED <<cfgVars, snapVars, j, err, aggErr, result, ctxDone, srv, log, auxVars>>

\* for _, runner := range runners { runner.Start(ctx) ...
CallRunnerStart ==
    /\ pc = "runners"
    /\ i <= Len(runners)
    /\ log' = Append(log, Call("rstart", i, "caller"))
    /\ pc' = "inRunnerStart"
    /\ UNCHANGED <<cfgVars, snapVars, i, j, err, aggErr, result, ctxDone, srv, auxVars>>

\* Whether Start of a runner of this kind can return an error:
\* httpServerRunner.Start always returns nil, grpcServerRunner.Start returns
\* the bind error, a caller-supplied runner returns what it likes.
StartCanFail(kind) == kind # "http"

\* Variant of AfterRunnerStart: a failed runner Start sends Run to the teardown.
AfterRunnerStartTeardown(ok) == IF ok THEN "runners" ELSE "stopRunners"

\* What Run does after runner.Start returned: the next position.
AfterRunnerStart(ok) == IF ok THEN "runners" ELSE "done"

RunnerStartReturn(ok) ==
    /\ pc = "inRunnerStart"
    /\ ok \/ StartCanFail(runners[i])
    /\ log' = Append(log, Ret("rstart", i, Res(ok, "rstart", i), ""))
    /\ pc' = AfterRunnerStart(ok)
    /\ IF ok
         THEN /\ i' = i + 1
              /\ srv' = [srv EXCEPT ![i] = "serving"]
              /\ UNCHANGED result
         ELSE /\ result' = Wrapf("runner start", Res(ok, "rstart", i))
              /\ UNCHANGED <<i, srv>>
    /\ UNCHANGED <<cfgVars, snapVars, j, err, aggErr, ctxDone, auxVars>>

\* The range over runners is exhausted: Run reaches <-ctx.Done().
RunnersDone ==
    /\ pc = "runners"
    /\ i > Len(runners)
    /\ pc' = "wait"
    /\ UNCHANGED <<cfgVars, snapVars, i, j, err, aggErr, result, ctxDone, srv, log, auxVars>>

\* Variant of WaitOver: Run also selects on the runners' serve errors.
WaitOverOrServeFailed == ctxDone \/ \E r \in DOMAIN srv : srv[r] = "failed"

\* What lets Run past <-ctx.Done().
WaitOver == ctxDone

\* Variant of TeardownNext: lifecycle stops run before the runners are stopped.
TeardownNextStopsFirst(phase) ==
    CASE phase = "wait" -> "stopFns"
      [] phase = "stopFns" -> "stopRunners"
      [] phase = "stopRunners" -> "hooks"
      [] phase = "hooks" -> "done"

\* Order of the three teardown loops that follow the wait.
TeardownNext(phase) ==
    CASE phase = "wait" -> "stopRunners"
      [] phase = "stopRunners" -> "stopFns"
      [] phase = "stopFns" -> "hooks"
      [] phase = "hooks" -> "done"

\* Loop variable initialisation of a teardown loop.
LoopInit(phase) ==
    CASE phase = "stopRunners" -> Len(runners)
      [] phase = "stopFns" -> Len(stopFns)
      [] phase = "hooks" -> 1
      [] phase = "done" -> 0

\* <-ctx.Done() returns; var aggErr error.
Wait ==
    /\ pc = "wait"
    /\ WaitOver
    /\ pc' = TeardownNext("wait")
    /\ i' = LoopInit(TeardownNext("wait"))
    /\ aggErr' = NilErr
    /\ UNCHANGED <<cfgVars, snapVars, j, err, result, ctxDone, srv, log, auxVars>>

\* Variant of TeardownErr: the latest teardown error replaces the earlier ones.
TeardownErrReplace(agg, tag, e) ==
    IF e # NilErr THEN Wrapf(tag, e) ELSE agg

\* aggErr after one teardown step returned e.
TeardownErr(agg, tag, e) ==
    IF e # NilErr THEN Join(agg, Wrapf(tag, e)) ELSE agg

\* Loop variable update of the two reverse teardown loops.
ReverseNext(k) == k - 1

\* runners[i].Stop(ctx)
CallRunnerStop ==
    /\ pc = "stopRunners"
    /\ i >= 1
    /\ log' = Append(log, Call("rstop", i, "caller"))
    /\ pc' = "inRunnerStop"
    /\ UNCHANGED <<cfgVars, snapVars, i, j, err, aggErr, result, ctxDone, srv, auxVars>>

\* Variant of HTTPStopErr: the error of server.Shutdown is dropped and only
\* the serve error is returned, as the gRPC runner does.
HTTPStopErrServeOnly(how, failed, idx) ==
    IF failed THEN Leaf("serve", idx) ELSE NilErr

\* httpServerRunner.Stop: the result of server.Shutdown(shutdownCtx) joined
\* with the serve error found in errCh, if any.
HTTPStopErr(how, failed, idx) ==
    Join(IF how = "graceful" THEN NilErr ELSE Leaf("ctx", idx),
         IF failed THEN Leaf("serve", idx) ELSE NilErr)

\* grpcServerRunner.Stop: only the serve error found in errCh, if any.
GRPCStopErr(how, failed, idx) ==
    IF failed THEN Leaf("serve", idx) ELSE NilErr

StopErr(kind, how, failed, idx) ==
    IF kind = "http" THEN HTTPStopErr(how, failed, idx)
    ELSE GRPCStopErr(how, failed, idx)

\* Variant of FinishRunnerStop: a runner Stop error makes Run return at once,
\* as a runner Start error does.
FinishRunnerStopAbort(e, via) ==
    /\ log' = Append(log, Ret("rstop", i, e, via))
    /\ srv' = [srv EXCEPT ![i] = "stopped"]
    /\ IF e # NilErr
         THEN /\ result' = Wrapf("runner stop", e)
              /\ pc' = "done"
              /\ UNCHANGED <<i, aggErr>>
         ELSE /\ i' = i - 1
              /\ pc' = "stopRunners"
              /\ UNCHANGED <<result, aggErr>>
    /\ UNCHANGED <<cfgVars, snapVars, j, err, ctxDone, auxVars>>

\* Stop of runner i returned e: aggregate and move to the next runner.
FinishRunnerStop(e, via) ==
    /\ log' = Append(log, Ret("rstop", i, e, via))
    /\ aggErr' = TeardownErr(aggErr, "runner stop", e)
    /\ srv' = [srv EXCEPT ![i] = "stopped"]
    /\ i' = ReverseNext(i)
    /\ pc' = "stopRunners"
    /\ UNCHANGED <<cfgVars, snapVars, j, err, result, ctxDone, auxVars>>

\* The server finished its in-flight work: Shutdown returns nil (HTTP), the
\* stopped channel is closed (gRPC).
RunnerStopGraceful ==
    /\ pc = "inRunnerStop"
    /\ runners[i] \in {"http", "grpc"}
    /\ FinishRunnerStop(StopErr(runners[i], "graceful", srv[i] = "failed", i), "graceful")

\* What ends the Stop of an HTTP or gRPC runner whose server has not finished:
\* the 5-second bound (shutdownCtx deadline, timer.C) or, when the context
\* given to Stop is done, that context (parent of shutdownCtx, ctx.Done()).
StopBounds(cancelled) == {"timeout"} \cup (IF cancelled THEN {"cancelled"} ELSE {})

\* Variant of RunnerStopBound: Stop waits for the server without any bound.
RunnerStopUnbounded ==
    /\ pc = "inRunnerStop"
    /\ FALSE
    /\ UNCHANGED vars

RunnerStopBound ==
    /\ pc = "inRunnerStop"
    /\ runners[i] \in {"http", "grpc"}
    /\ \E how \in StopBounds(ctxDone) :
          FinishRunnerStop(StopErr(runners[i], how, srv[i] = "failed", i), how)

\* Stop of a caller-supplied runner returns nil or its own error.
CustomStopReturn(ok) ==
    /\ pc = "inRunnerStop"
    /\ runners[i] = "custom"
    /\ FinishRunnerStop(Res(ok, "rstop", i), "")

RunnerStopsDone ==
    /\ pc = "stopRunners"
    /\ i < 1
    /\ pc' = TeardownNext("stopRunners")
    /\ i' = LoopInit(TeardownNext("stopRunners"))
    /\ UNCHANGED <<cfgVars, snapVars, j, err, aggErr, result, ctxDone, srv, log, auxVars>>

\* stopFns[i](ctx) in the teardown loop.
CallStop ==
    /\ pc = "stopFns"
    /\ i >= 1
    /\ log' = Append(log, Call("stop", i, "caller"))
    /\ pc' = "inStop"
    /\ UNCHANGED <<cfgVars, snapVars, i, j, err, aggErr, result, ctxDone, srv, auxVars>>

StopReturn(ok) ==
    /\ pc = "inStop"
    /\ log' = Append(log, Ret("stop", i, Res(ok, "stop", i), ""))
    /\ aggErr' = TeardownErr(aggErr, "lifecycle stop", Res(ok, "stop", i))
    /\ i' = ReverseNext(i)
    /\ pc' = "stopFns"
    /\ UNCHANGED <<cfgVars, snapVars, j, err, result, ctxDone, srv, auxVars>>

StopsDone ==
    /\ pc = "stopFns"
    /\ i < 1
    /\ pc' = TeardownNext("stopFns")
    /\ i' = LoopInit(TeardownNext("stopFns"))
    /\ UNCHANGED <<cfgVars, snapVars, j, err, aggErr, result, ctxDone, srv, log, auxVars>>

\* for _, hook := range shutdown { hook(ctx) ...
CallHook ==
    /\ pc = "hooks"
    /\ i <= Len(shutdown)
    /\ log' = Append(log, Call("hook", i, "caller"))
    /\ pc' = "inHook"
    /\ UNCHANGED <<cfgVars, snapVars, i, j, err, aggErr, result, ctxDone, srv, auxVars>>

HookReturn(ok) ==
    /\ pc = "inHook"
    /\ log' = Append(log, Ret("hook", i, Res(ok, "hook", i), ""))
    /\ aggErr' = TeardownErr(aggErr, "shutdown hook", Res(ok, "hook", i))
    /\ i' = i + 1
    /\ pc' = "hooks"
    /\ UNCHANGED <<cfgVars, snapVars, j, err, result, ctxDone, srv, auxVars>>

\* return aggErr
HooksDone ==
    /\ pc = "hooks"
    /\ i > Len(shutdown)
    /\ result' = aggErr
    /\ pc' = TeardownNext("hooks")
    /\ UNCHANGED <<cfgVars, snapVars, i, j, err, aggErr, ctxDone, srv, log, auxVars>>

(***************************************************************************)
(* Environment of Run.                                                     *)
(***************************************************************************)
Running == pc \notin {"config", "done", "panicked"}

\* The caller cancels the context (or its deadline passes); it may already
\* be cancelled when Run is entered.
CancelCtx ==
    /\ pc \notin {"done", "panicked"}
    /\ ~ctxDone
    /\ ctxDone' = TRUE
    /\ UNCHANGED <<cfgVars, snapVars, pc, i, j, err, aggErr, result, srv, log, auxVars>>

\* The background serve goroutine of an HTTP or gRPC runner fails after Start
\* returned nil: the error is sent to the runner's errCh.
ServeFail(r) ==
    /\ Running
    /\ runners[r] \in {"http", "grpc"}
    /\ srv[r] = "serving"
    /\ srv' = [srv EXCEPT ![r] = "failed"]
    /\ UNCHANGED <<cfgVars, snapVars, pc, i, j, err, aggErr, result, ctxDone, log, auxVars>>

Next ==
    \/ \E a, b \in BOOLEAN : (a \/ b) /\ WithLifecycle(a, b)
    \/ WithRunner
    \/ WithHTTPServer
    \/ WithGRPCServer
    \/ WithShutdown
    \/ RunEnter
    \/ CallStart
    \/ \E ok \in BOOLEAN : StartReturn(ok)
    \/ CallRollback
    \/ RollbackPanic
    \/ \E ok \in BOOLEAN : RollbackReturn(ok)
    \/ RollbackDone
    \/ StartsDone
    \/ CallRunnerStart
    \/ \E ok \in BOOLEAN : RunnerStartReturn(ok)
    \/ RunnersDone
    \/ Wait
    \/ CallRunnerStop
    \/ RunnerStopGraceful
    \/ RunnerStopBound
    \/ \E ok \in BOOLEAN : CustomStopReturn(ok)
    \/ RunnerStopsDone
    \/ CallStop
    \/ \E ok \in BOOLEAN : StopReturn(ok)
    \/ StopsDone
    \/ CallHook
    \/ \E ok \in BOOLEAN : HookReturn(ok)
    \/ HooksDone
    \/ CancelCtx
    \/ \E r \in 1..Len(runners) : ServeFail(r)

Spec == Init /\ [][Next]_vars

\* Scheduling assumptions for progress: the goroutine executing Run keeps
\* running; functions supplied by the caller return; time passes, so the
\* 5-second bound of an HTTP or gRPC runner's Stop expires.  Nothing forces a
\* server to finish its in-flight work (RunnerStopGraceful).
Fairness ==
    /\ WF_vars(CallStart) /\ WF_vars(CallRollback) /\ WF_vars(RollbackDone)
    /\ WF_vars(StartsDone) /\ WF_vars(CallRunnerStart) /\ WF_vars(RunnersDone)
    /\ WF_vars(Wait)
    /\ WF_vars(CallRunnerStop) /\ WF_vars(RunnerStopsDone)
    /\ WF_vars(CallStop) /\ WF_vars(StopsDone)
    /\ WF_vars(CallHook) /\ WF_vars(HooksDone)
    /\ WF_vars(\E ok \in BOOLEAN : StartReturn(ok))
    /\ WF_vars(\E ok \in BOOLEAN : RollbackReturn(ok))
    /\ WF_vars(\E ok \in BOOLEAN : RunnerStartReturn(ok))
    /\ WF_vars(\E ok \in BOOLEAN : StopReturn(ok))
    /\ WF_vars(\E ok \in BOOLEAN : HookReturn(ok))
    /\ WF_vars(\E ok \in BOOLEAN : CustomStopReturn(ok))
    /\ WF_vars(RunnerStopBound)

SpecLive == Init /\ [][Next]_vars /\ Fairness

(***************************************************************************)
(* Reading the history.                                                    *)
(***************************************************************************)
\* <<op, idx>> of the calls of the history whose op is in ops, in order.
CallsOf(ops) ==
    LET cs == SelectSeq(log, LAMBDA x : x.ev = "call" /\ x.op \in ops)
    IN  [n \in 1..Len(cs) |-> <<cs[n].op, cs[n].idx>>]

NumCalls(op, idx) ==
    Cardinality({n \in 1..Len(log) : log[n].ev = "call" /\ log[n].op = op /\ log[n].idx = idx})

\* Some call of op at idx returned a non-nil error.
Failed(op, idx) ==
    \E n \in 1..Len(log) :
        log[n].ev = "ret" /\ log[n].op = op /\ log[n].idx = idx /\ log[n].e # NilErr

\* <<op, lo>>, ..., <<op, hi>> in ascending index order.
Up(op, lo, hi) == [n \in 1..(IF hi >= lo THEN hi - lo + 1 ELSE 0) |-> <<op, lo + n - 1>>]

\* <<op, hi>>, ..., <<op, 1>> in descending index order.
Down(op, hi) == [n \in 1..(IF hi >= 1 THEN hi ELSE 0) |-> <<op, hi - n + 1>>]

IsPrefix(a, b) == Len(a) <= Len(b) /\ \A n \in 1..Len(a) : a[n] = b[n]

\* Lifecycle startup failed: some start function returned an error.
StartFailedAt(k) == Failed("start", k)

\* Run got past the startup of every lifecycle function and every runner.
StartupSucceeded ==
    /\ pc \notin {"config", "starts", "inStart", "rollback", "inRollback",
                  "runners", "inRunnerStart", "panicked"}
    /\ \A n \in 1..Len(log) : log[n].op \in {"start", "rstart"} => log[n].e = NilErr

TeardownOps == {"rstop", "stop", "hook"}

(***************************************************************************)
(* Properties of Micro.Run.                                                *)
(***************************************************************************)

\* C1: when lifecycle start k fails after all earlier ones succeeded, and the
\* stop list covers the indexes below k, Run does not panic, the rollback
\* invokes exactly the stops below k, each once, in strictly descending index
\* order, never a stop at index k or above, and Run returns a non-nil error.
RollbackExact ==
    \A k \in 1..Len(startFns) :
        (StartFailedAt(k) /\ Len(stopFns) >= k - 1) =>
            /\ pc # "panicked"
            /\ IsPrefix(CallsOf({"stop"}), Down("stop", k - 1))
            /\ pc = "done" =>
                 /\ CallsOf({"stop"}) = Down("stop", k - 1)
                 /\ result # NilErr

\* Three starts [ok, ok, fail] with two stops: stop 2 then stop 1 were invoked
\* and Run has returned an error.
RollbackExactWitness ==
    /\ pc = "done"
    /\ Len(startFns) = 3
    /\ Len(stopFns) = 2
    /\ StartFailedAt(3)
    /\ CallsOf({"stop"}) = <<<<"stop", 2>>, <<"stop", 1>>>>
    /\ result # NilErr

\* C2: once lifecycle start k has failed, no start above k, no runner Start or
\* Stop and no shutdown hook is ever invoked, and Run never reaches the wait on
\* ctx.Done(): it is rolling back, has returned or has panicked.
FailFast ==
    \A k \in 1..Len(startFns) :
        StartFailedAt(k) =>
            /\ \A n \in 1..Len(log) : log[n].op = "start" => log[n].idx <= k
            /\ CallsOf({"rstart", "rstop", "hook"}) = <<>>
            /\ pc \in {"rollback", "inRollback", "done", "panicked"}

\* The first of two starts failed with a runner and a hook registered; Run has
\* returned although the context was never cancelled.
FailFastWitness ==
    /\ pc = "done"
    /\ ~ctxDone
    /\ StartFailedAt(1)
    /\ Len(startFns) >= 2
    /\ Len(runners) >= 1
    /\ Len(shutdown) >= 1
    /\ result # NilErr

\* Calls made by the teardown: runner Stops, hooks, and the lifecycle stops
\* that received Run's own context (the rollback passes a background one).
TeardownCalls ==
    LET cs == SelectSeq(log, LAMBDA x :
                  /\ x.ev = "call"
                  /\ \/ x.op \in {"rstop", "hook"}
                     \/ x.op = "stop" /\ x.ctx = "caller")
    IN  [n \in 1..Len(cs) |-> <<cs[n].op, cs[n].idx>>]

ExpectedTeardown ==
    Down("rstop", Len(runners)) \o Down("stop", Len(stopFns)) \o Up("hook", 1, Len(shutdown))

ExpectedStartup ==
    Up("start", 1, Len(startFns)) \o Up("rstart", 1, Len(runners))

\* Returns of teardown steps recorded in the history.
TeardownRets ==
    {n \in 1..Len(log) :
        /\ log[n].ev = "ret"
        /\ \/ log[n].op \in {"rstop", "hook"}
           \/ log[n].op = "stop" /\ log[n - 1].ctx = "caller"}

\* C3: after a fully successful startup no runner Stop, lifecycle stop or
\* shutdown hook is invoked twice, and when Run has returned (the context was
\* cancelled) each of them has been invoked exactly once, whatever the steps
\* returned.
TeardownExhaustive ==
    StartupSucceeded =>
        /\ \A r \in 1..Len(runners) : NumCalls("rstop", r) <= 1
        /\ \A n \in 1..Len(stopFns) : NumCalls("stop", n) <= 1
        /\ \A h \in 1..Len(shutdown) : NumCalls("hook", h) <= 1
        /\ pc = "done" =>
             /\ ctxDone
             /\ \A r \in 1..Len(runners) : NumCalls("rstop", r) = 1
             /\ \A n \in 1..Len(stopFns) : NumCalls("stop", n) = 1
             /\ \A h \in 1..Len(shutdown) : NumCalls("hook", h) = 1

\* Run has returned after a teardown in which a runner Stop and the lifecycle
\* stop failed and the steps after them still ran.
TeardownExhaustiveWitness ==
    /\ pc = "done"
    /\ StartupSucceeded
    /\ Len(runners) >= 2
    /\ Failed("rstop", 2)
    /\ NumCalls("rstop", 1) = 1
    /\ Failed("stop", 1)
    /\ NumCalls("hook", 1) = 1

StartupOrder ==
    /\ IsPrefix(CallsOf({"start", "rstart"}), ExpectedStartup)
    /\ \A n \in 2..Len(log) :
          (log[n].ev = "call" /\ log[n].op \in {"start", "rstart"}) =>
              /\ log[n - 1].ev = "ret"
              /\ log[n - 1].op \in {"start", "rstart"}
              /\ log[n - 1].e = NilErr

\* Two lifecycle starts and two runners have all been started, in order.
StartupOrderWitness ==
    /\ pc = "wait"
    /\ Len(startFns) = 2
    /\ Len(runners) = 2
    /\ CallsOf({"start", "rstart"}) =
          <<<<"start", 1>>, <<"start", 2>>, <<"rstart", 1>>, <<"rstart", 2>>>>

\* C6: once the Start of runner k has failed, Run has returned a non-nil
\* error, every runner up to k has had Start invoked exactly once, no runner
\* above k has been started, and no runner Stop, lifecycle stop or shutdown
\* hook is ever invoked.
RunnerStartFailFast ==
    \A k \in 1..Len(runners) :
        Failed("rstart", k) =>
            /\ pc = "done"
            /\ result # NilErr
            /\ \A r \in 1..Len(runners) :
                  NumCalls("rstart", r) = IF r <= k THEN 1 ELSE 0
            /\ CallsOf({"rstop", "stop", "hook"}) = <<>>

\* The second of two runners failed to start after the lifecycle start
\* succeeded; a stop and a hook are registered and the context is not cancelled.
RunnerStartFailFastWitness ==
    /\ pc = "done"
    /\ Failed("rstart", 2)
    /\ NumCalls("start", 1) = 1
    /\ Len(stopFns) >= 1
    /\ Len(shutdown) >= 1
    /\ ~ctxDone

\* C7: while Run rolls back after start k failed, err keeps the start error;
\* the error Run returns contains the start error and the error of every
\* rollback stop that failed; and when the stop list covers the indexes below
\* k every one of them has been invoked, failing ones included.
RollbackErrorsJoined ==
    \A k \in 1..Len(startFns) :
        StartFailedAt(k) =>
            /\ pc \in {"rollback", "inRollback"} => ErrIs(err, Leaf("start", k))
            /\ pc = "done" =>
                 /\ ErrIs(result, Leaf("start", k))
                 /\ \A n \in 1..Len(stopFns) :
                       Failed("stop", n) => ErrIs(result, Leaf("stop", n))
                 /\ Len(stopFns) >= k - 1 =>
                       \A n \in 1..(k - 1) : NumCalls("stop", n) = 1

\* Start 3 failed, rollback stop 2 failed, stop 1 was still invoked and failed
\* too; Run has returned.
RollbackErrorsJoinedWitness ==
    /\ pc = "done"
    /\ StartFailedAt(3)
    /\ Failed("stop", 2)
    /\ Failed("stop", 1)
    /\ ErrIs(result, Leaf("stop", 2))

\* C8: while the context is not cancelled, Run is not in its teardown, has
\* made no teardown call, and has returned only if the startup failed.
WaitsForCancel ==
    ~ctxDone =>
        /\ pc \notin {"stopRunners", "inRunnerStop", "stopFns", "inStop", "hooks", "inHook"}
        /\ TeardownCalls = <<>>
        /\ pc = "done" =>
              \/ \E k \in 1..Len(startFns) : StartFailedAt(k)
              \/ \E k \in 1..Len(runners) : Failed("rstart", k)

\* Run is blocked on an uncancelled context while the serve loop of one of its
\* runners has already failed.
WaitsForCancelWitness ==
    /\ pc = "wait"
    /\ ~ctxDone
    /\ \E r \in 1..Len(runners) : srv[r] = "failed"

\* C9: once Run is at its wait with the context cancelled, it eventually
\* returns with the whole teardown done, although no server is ever obliged to
\* finish its graceful shutdown.
TeardownTerminates ==
    (pc = "wait" /\ ctxDone) ~> (pc = "done" /\ TeardownCalls = ExpectedTeardown)

\* Run has returned after the Stop of an HTTP or gRPC runner ended through its
\* 5-second bound.
TeardownTerminatesWitness ==
    /\ pc = "done"
    /\ StartupSucceeded
    /\ \E n \in 1..Len(log) : log[n].op = "rstop" /\ log[n].via = "timeout"
    /\ TeardownCalls = ExpectedTeardown

\* C10: when Run returns after the teardown, its result is nil exactly when
\* every teardown step returned nil (the cancelled context adds no error), and
\* otherwise contains the error of every step that failed.
TeardownResult ==
    (pc = "done" /\ StartupSucceeded) =>
        /\ result = NilErr <=> \A n \in TeardownRets : log[n].e = NilErr
        /\ \A n \in TeardownRets : log[n].e # NilErr => ErrIs(result, log[n].e)

\* A runner Stop and a shutdown hook both failed and Run returned an error
\* holding both.
TeardownResultWitness ==
    /\ pc = "done"
    /\ StartupSucceeded
    /\ Failed("rstop", 1)
    /\ Failed("hook", 1)
    /\ ErrIs(result, Leaf("hook", 1))
    /\ result # NilErr

(***************************************************************************)
(* Runner: one httpServerRunner or grpcServerRunner driven directly by a    *)
(* caller that calls Start and Stop one after the other, together with the  *)
(* serve goroutines Start launches, the goroutine calling GracefulStop, the *)
(* 5-second timer and the context given to Stop.                            *)
(***************************************************************************)
MaxStarts == 2     \* Start calls on the runner
MaxStops == 2      \* Stop calls on the runner

microVars == <<cfgVars, snapVars, pc, i, j, err, aggErr, result, ctxDone, srv, log>>

InitRunner ==
    /\ MicroInit
    /\ rnr \in {NewRunner("http"), NewRunner("grpc")}
    /\ fs = NoCall

RunnerLive == rnr.kind \in {"http", "grpc"} /\ ~rnr.panicked

Goroutines == 1..Len(rnr.gor)

\* Variant of CanSend: errCh is made without a buffer, so a send proceeds
\* only on a closed channel (Stop never waits in its receive).
CanSendUnbuffered == rnr.errClosed

\* r.errCh <- err: on a closed channel the send panics, on a full one it
\* blocks.
CanSend == rnr.errClosed \/ Len(rnr.errBuf) < 1

\* The error of a bind failure, as grpcServerRunner.Start wraps it.
ListenErr(n) == Wrapf("failed to listen", Leaf("listen", n))

\* Variant of HTTPStart: the listener is bound before Start returns, as in
\* the gRPC runner, and a bind failure is returned.
HTTPStartBindFirst ==
    /\ RunnerLive /\ rnr.kind = "http"
    /\ rnr.sp = "idle"
    /\ rnr.starts < MaxStarts
    /\ \E bindOk \in BOOLEAN :
          rnr' = IF bindOk
                 THEN [rnr EXCEPT !.gor = Append(@, "serving"),
                                  !.ret = NilErr, !.lastOp = "start", !.starts = @ + 1]
                 ELSE [rnr EXCEPT !.ret = ListenErr(rnr.starts + 1),
                                  !.lastOp = "start", !.starts = @ + 1]
    /\ UNCHANGED <<microVars, fs>>

\* httpServerRunner.Start: launches the goroutine and returns nil.
HTTPStart ==
    /\ RunnerLive /\ rnr.kind = "http"
    /\ rnr.sp = "idle"
    /\ rnr.starts < MaxStarts
    /\ rnr' = [rnr EXCEPT !.gor = Append(@, "launched"),
                          !.ret = NilErr, !.lastOp = "start", !.starts = @ + 1]
    /\ UNCHANGED <<microVars, fs>>

\* Variant of GRPCStart: the goroutine is launched before the result of
\* net.Listen is looked at.
GRPCStartAlwaysServes(bindOk) ==
    /\ RunnerLive /\ rnr.kind = "grpc"
    /\ rnr.sp = "idle"
    /\ rnr.starts < MaxStarts
    /\ rnr' = [rnr EXCEPT !.gor = Append(@, "launched"),
                          !.ret = IF bindOk THEN NilErr ELSE ListenErr(rnr.starts + 1),
                          !.lastOp = "start", !.starts = @ + 1]
    /\ UNCHANGED <<microVars, fs>>

\* grpcServerRunner.Start: net.Listen, then the goroutine.
GRPCStart(bindOk) ==
    /\ RunnerLive /\ rnr.kind = "grpc"
    /\ rnr.sp = "idle"
    /\ rnr.starts < MaxStarts
    /\ rnr' = IF bindOk
              THEN [rnr EXCEPT !.gor = Append(@, "launched"),
                               !.ret = NilErr, !.lastOp = "start", !.starts = @ + 1]
              ELSE [rnr EXCEPT !.ret = ListenErr(rnr.starts + 1),
                               !.lastOp = "start", !.starts = @ + 1]
    /\ UNCHANGED <<microVars, fs>>

\* What the serve call of goroutine g comes to when it begins.  HTTP:
\* ListenAndServe returns ErrServerClosed (not reported) once Shutdown was
\* called, a bind error when the address cannot be bound, and serves
\* otherwise.  gRPC: Serve is refused with ErrServerStopped once the server
\* was stopped and serves the bound listener otherwise.
ServeBegins(kind, server, bindOk) ==
    IF kind = "http"
    THEN IF server = "shut" THEN "closing"
         ELSE IF bindOk THEN "serving" ELSE "failed"
    ELSE IF server = "shut" THEN "refused" ELSE "serving"

\* The goroutine launched by Start begins ListenAndServe / Serve.
GoServe(g, bindOk) ==
    /\ RunnerLive
    /\ rnr.gor[g] = "launched"
    /\ rnr' = [rnr EXCEPT !.gor[g] = ServeBegins(rnr.kind, rnr.server, bindOk)]
    /\ UNCHANGED <<microVars, fs>>

\* The accept loop fails while the server is serving.
ServeLoopFail(g) ==
    /\ RunnerLive
    /\ rnr.gor[g] = "serving"
    /\ rnr.server = "new"
    /\ rnr' = [rnr EXCEPT !.gor[g] = "failed"]
    /\ UNCHANGED <<microVars, fs>>

\* ListenAndServe / Serve returns because the server was shut down: the
\* result is ErrServerClosed (HTTP) or nil (gRPC), and nothing is sent.
ServeLoopEnd(g) ==
    /\ RunnerLive
    /\ rnr.gor[g] = "serving"
    /\ rnr.server = "shut"
    /\ rnr' = [rnr EXCEPT !.gor[g] = "closing"]
    /\ UNCHANGED <<microVars, fs>>

\* r.errCh <- err
GoSend(g) ==
    /\ RunnerLive
    /\ rnr.gor[g] \in {"failed", "refused"}
    /\ CanSend
    /\ rnr' = IF rnr.errClosed
              THEN [rnr EXCEPT !.panicked = TRUE]
              ELSE [rnr EXCEPT !.errBuf = Append(@, Leaf("serve", 1)),
                               !.gor[g] = "closing"]
    /\ UNCHANGED <<microVars, fs>>

\* close(r.errCh)
GoClose(g) ==
    /\ RunnerLive
    /\ rnr.gor[g] = "closing"
    /\ rnr' = IF rnr.errClosed
              THEN [rnr EXCEPT !.panicked = TRUE]
              ELSE [rnr EXCEPT !.errClosed = TRUE, !.gor[g] = "exited"]
    /\ UNCHANGED <<microVars, fs>>

\* A request arrives at a serving server and stays in flight.
RequestArrives ==
    /\ RunnerLive
    /\ rnr.server = "new"
    /\ \E g \in Goroutines : rnr.gor[g] = "serving"
    /\ ~rnr.inflight
    /\ rnr' = [rnr EXCEPT !.inflight = TRUE]
    /\ UNCHANGED <<microVars, fs>>

\* The work in flight finishes.
RequestDone ==
    /\ RunnerLive
    /\ rnr.inflight
    /\ rnr' = [rnr EXCEPT !.inflight = FALSE]
    /\ UNCHANGED <<microVars, fs>>

\* Stop(ctx) is entered.  HTTP: shutdownCtx is derived with the 5-second
\* timeout and server.Shutdown(shutdownCtx) is called.  gRPC: the goroutine
\* calling GracefulStop is spawned and the 5-second timer created.
StopEnter(cancelled) ==
    /\ RunnerLive
    /\ rnr.sp = "idle"
    /\ rnr.stops < MaxStops
    /\ rnr' = [rnr EXCEPT
                 !.sp = IF rnr.kind = "http" THEN "shutdown" ELSE "select",
                 !.server = IF rnr.kind = "http" THEN "shut" ELSE @,
                 !.gs = IF rnr.kind = "grpc" THEN "spawned" ELSE @,
                 !.timer = "running",
                 !.ctx = cancelled,
                 !.order = IF cancelled THEN <<"ctx">> ELSE <<>>,
                 !.taken = "",
                 !.forced = FALSE,
                 !.drained = FALSE,
                 !.got = FALSE,
                 !.stops = @ + 1]
    /\ UNCHANGED <<microVars, fs>>

Stopping == rnr.sp \in {"shutdown", "select"}

\* Five seconds pass while Stop is waiting.
TimerFire ==
    /\ RunnerLive
    /\ Stopping
    /\ rnr.timer = "running"
    /\ rnr' = [rnr EXCEPT !.timer = "fired", !.order = Append(@, "timer")]
    /\ UNCHANGED <<microVars, fs>>

\* The ctx given to Stop is cancelled while Stop is waiting.
CancelStopCtx ==
    /\ RunnerLive
    /\ Stopping
    /\ ~rnr.ctx
    /\ rnr' = [rnr EXCEPT !.ctx = TRUE, !.order = Append(@, "ctx")]
    /\ UNCHANGED <<microVars, fs>>

\* The error of shutdownCtx once it is done: of the cancellation or of the
\* deadline, whichever came first.
ShutdownCtxHow(order) == IF order[1] = "ctx" THEN "cancelled" ELSE "timeout"

\* server.Shutdown finds no open connection and returns nil.
HTTPShutdownIdle ==
    /\ RunnerLive
    /\ rnr.sp = "shutdown"
    /\ ~rnr.inflight
    /\ rnr' = [rnr EXCEPT !.sp = "drain", !.taken = "graceful"]
    /\ UNCHANGED <<microVars, fs>>

\* server.Shutdown finds work in flight and shutdownCtx done: it returns
\* the context's error.
HTTPShutdownCtxDone ==
    /\ RunnerLive
    /\ rnr.sp = "shutdown"
    /\ rnr.inflight
    /\ rnr.order # <<>>
    /\ rnr' = [rnr EXCEPT !.sp = "drain", !.taken = ShutdownCtxHow(rnr.order)]
    /\ UNCHANGED <<microVars, fs>>

\* The goroutine spawned by gRPC Stop calls GracefulStop: the server stops
\* accepting.
GSBegin ==
    /\ RunnerLive
    /\ rnr.gs = "spawned"
    /\ rnr' = [rnr EXCEPT !.gs = "waiting", !.server = "shut"]
    /\ UNCHANGED <<microVars, fs>>

\* GracefulStop returns, once no work is in flight, and `stopped` is closed.
GSDone ==
    /\ RunnerLive
    /\ rnr.gs = "waiting"
    /\ ~rnr.inflight
    /\ rnr' = [rnr EXCEPT !.gs = "done",
                          !.order = IF rnr.sp = "select" THEN Append(@, "graceful") ELSE @]
    /\ UNCHANGED <<microVars, fs>>

\* Variant of SelectReady: the select has no timer case.
SelectReadyNoTimer ==
    (IF rnr.gs = "done" THEN {"graceful"} ELSE {})
        \cup (IF rnr.ctx THEN {"cancelled"} ELSE {})

\* The cases of the select in gRPC Stop that can proceed.
SelectReady ==
    (IF rnr.gs = "done" THEN {"graceful"} ELSE {})
        \cup (IF rnr.timer = "fired" THEN {"timeout"} ELSE {})
        \cup (IF rnr.ctx THEN {"cancelled"} ELSE {})

\* Variant of GRPCSelect: server.Stop() is called after the select, whatever
\* case was taken.
GRPCSelectAlwaysForce(c) ==
    /\ RunnerLive
    /\ rnr.sp = "select"
    /\ c \in SelectReady
    /\ rnr' = [rnr EXCEPT !.sp = "drain",
                          !.taken = c,
                          !.forced = TRUE,
                          !.server = "shut",
                          !.inflight = FALSE]
    /\ UNCHANGED <<microVars, fs>>

\* The select takes one of the cases that can proceed; the timer and the
\* ctx case call server.Stop(), which drops the work in flight.
GRPCSelect(c) ==
    /\ RunnerLive
    /\ rnr.sp = "select"
    /\ c \in SelectReady
    /\ rnr' = [rnr EXCEPT !.sp = "drain",
                          !.taken = c,
                          !.forced = (c # "graceful"),
                          !.server = IF c # "graceful" THEN "shut" ELSE @,
                          !.inflight = IF c # "graceful" THEN FALSE ELSE @]
    /\ UNCHANGED <<microVars, fs>>

\* Variant of Drain: the receive on r.errCh has no default case, so it waits
\* for a value or for the channel to be closed.
DrainBlocking ==
    /\ RunnerLive
    /\ rnr.sp = "drain"
    /\ rnr.errBuf # <<>> \/ rnr.errClosed
    /\ rnr' = [rnr EXCEPT !.sp = "idle",
                          !.ret = StopErr(rnr.kind, rnr.taken, rnr.errBuf # <<>>, 1),
                          !.errBuf = <<>>,
                          !.drained = TRUE,
                          !.got = (rnr.errBuf # <<>>),
                          !.timer = "off",
                          !.lastOp = "stop"]
    /\ UNCHANGED <<microVars, fs>>

\* The non-blocking receive on r.errCh and the return of Stop.
Drain ==
    /\ RunnerLive
    /\ rnr.sp = "drain"
    /\ rnr' = [rnr EXCEPT !.sp = "idle",
                          !.ret = StopErr(rnr.kind, rnr.taken, rnr.errBuf # <<>>, 1),
                          !.errBuf = <<>>,
                          !.drained = TRUE,
                          !.got = (rnr.errBuf # <<>>),
                          !.timer = "off",
                          !.lastOp = "stop"]
    /\ UNCHANGED <<microVars, fs>>

NextRunner ==
    \/ HTTPStart
    \/ \E bindOk \in BOOLEAN : GRPCStart(bindOk)
    \/ \E g \in Goroutines, bindOk \in BOOLEAN : GoServe(g, bindOk)
    \/ \E g \in Goroutines : ServeLoopFail(g)
    \/ \E g \in Goroutines : ServeLoopEnd(g)
    \/ \E g \in Goroutines : GoSend(g)
    \/ \E g \in Goroutines : GoClose(g)
    \/ RequestArrives
    \/ RequestDone
    \/ \E cancelled \in BOOLEAN : StopEnter(cancelled)
    \/ TimerFire
    \/ CancelStopCtx
    \/ HTTPShutdownIdle
    \/ HTTPShutdownCtxDone
    \/ GSBegin
    \/ GSDone
    \/ \E c \in {"graceful", "timeout", "cancelled"} : GRPCSelect(c)
    \/ Drain

SpecRunner == InitRunner /\ [][NextRunner]_vars

\* Scheduling assumptions for progress of Stop: the goroutine executing Stop
\* and the goroutine calling GracefulStop keep running and time passes.
\* Nothing forces the work in flight to finish, the serve goroutines to run,
\* or the ctx to be cancelled.
FairnessRunner ==
    /\ WF_vars(TimerFire)
    /\ WF_vars(GSBegin)
    /\ WF_vars(GSDone)
    /\ WF_vars(HTTPShutdownIdle)
    /\ WF_vars(HTTPShutdownCtxDone)
    /\ WF_vars(\E c \in {"graceful", "timeout", "cancelled"} : GRPCSelect(c))
    /\ WF_vars(Drain)

SpecRunnerLive == InitRunner /\ [][NextRunner]_vars /\ FairnessRunner

(***************************************************************************)
(* Properties of the registration options.                                 *)
(***************************************************************************)

\* C11: after any sequence of registrations the start list and the stop list
\* have the same length and the stop at every index belongs to the component
\* whose start is at that index.
IndexPairing ==
    /\ Len(startFuncs) = Len(stopFuncs)
    /\ \A n \in 1..Len(startFuncs) : stopFuncs[n] = startFuncs[n]

(***************************************************************************)
(* Registration concurrent with Run.  addStart, addStop, addRunner and      *)
(* addShutdown take the write lock, append and release it, so a call from   *)
(* another goroutine can land at any point after Run has released its read  *)
(* lock.  Each call is one atomic append to the live list.                  *)
(***************************************************************************)

RunStarted == pc \notin {"config", "done", "panicked"}

\* micro.addStart(fn) from another goroutine while Run is executing.
LateAddStart ==
    /\ RunStarted
    /\ nOpts < MaxOpts
    /\ nComps < MaxComps
    /\ nComps' = nComps + 1
    /\ startFuncs' = addStart(startFuncs, nComps + 1)
    /\ UNCHANGED <<stopFuncs, mRunners, mShutdown, httpConfigured>>
    /\ UNCHANGED <<pc, snapVars, i, j, err, aggErr, result, ctxDone, srv, log, auxVars>>

\* micro.addStop(fn) from another goroutine while Run is executing.
LateAddStop ==
    /\ RunStarted
    /\ nOpts < MaxOpts
    /\ nComps < MaxComps
    /\ nComps' = nComps + 1
    /\ stopFuncs' = addStop(stopFuncs, nComps + 1)
    /\ UNCHANGED <<startFuncs, mRunners, mShutdown, httpConfigured>>
    /\ UNCHANGED <<pc, snapVars, i, j, err, aggErr, result, ctxDone, srv, log, auxVars>>

\* micro.addRunner(r) from another goroutine while Run is executing.
LateAddRunner ==
    /\ RunStarted
    /\ nOpts < MaxOpts
    /\ Len(mRunners) < MaxRunners
    /\ mRunners' = addRunner(mRunners, "custom")
    /\ UNCHANGED <<startFuncs, stopFuncs, mShutdown, httpConfigured, nComps>>
    /\ UNCHANGED <<pc, snapVars, i, j, err, aggErr, result, ctxDone, srv, log, auxVars>>

\* micro.addShutdown(fn) from another goroutine while Run is executing.
LateAddShutdown ==
    /\ RunStarted
    /\ nOpts < MaxOpts
    /\ Len(mShutdown) < MaxHooks
    /\ mShutdown' = addShutdown(mShutdown, Len(mShutdown) + 1)
    /\ UNCHANGED <<startFuncs, stopFuncs, mRunners, httpConfigured, nComps>>
    /\ UNCHANGED <<pc, snapVars, i, j, err, aggErr, result, ctxDone, srv, log, auxVars>>

NextConc ==
    \/ Next
    \/ LateAddStart
    \/ LateAddStop
    \/ LateAddRunner
    \/ LateAddShutdown

SpecConc == Init /\ [][NextConc]_vars

\* The list a call of kind op indexes into, as Run copied it at entry.
SnapshotOf(op) ==
    CASE op = "start" -> startFns
      [] op = "stop" -> stopFns
      [] op \in {"rstart", "rstop"} -> runners
      [] op = "hook" -> shutdown

\* Components whose start Run has called, and components whose stop Run has
\* called during teardown.
StartedComponents ==
    {startFns[log[n].idx] : n \in {m \in 1..Len(log) : log[m].ev = "call" /\ log[m].op = "start"}}

TornDownComponents ==
    {stopFns[log[n].idx] : n \in {m \in 1..Len(log) :
        log[m].ev = "call" /\ log[m].op = "stop" /\ log[m].ctx = "caller"}}

\* C12: every call Run makes indexes into the list as it was copied at
\* entry, so a registration landing after the snapshot is neither started
\* nor stopped; and when Run has returned after a successful startup, the
\* components it started are exactly the components it tore down.
SnapshotIsolation ==
    /\ \A n \in 1..Len(log) :
          log[n].ev = "call" => log[n].idx \in 1..Len(SnapshotOf(log[n].op))
    /\ (pc = "done" /\ StartupSucceeded) => StartedComponents = TornDownComponents

(***************************************************************************)
(* Properties of the HTTP and gRPC runners.                                *)
(***************************************************************************)

\* The last call on the runner was a Stop, and it has returned.
StopReturned == rnr.sp = "idle" /\ rnr.lastOp = "stop"

\* C13: a Stop in progress on an HTTP or gRPC runner eventually returns,
\* whether or not the work in flight ever finishes, unless the process has
\* died of a channel panic in a serve goroutine.
StopEventuallyReturns ==
    (rnr.sp # "idle") ~> (StopReturned \/ rnr.panicked)

\* A Stop on a server that never finished its work returned through the
\* 5-second bound.
StopEventuallyReturnsWitness ==
    /\ StopReturned
    /\ rnr.taken = "timeout"
    /\ \E g \in Goroutines : rnr.gor[g] \in {"serving", "closing", "exited"}

\* C14 as stated: a Stop of an HTTP or gRPC runner that ended through its
\* timeout path returned a non-nil error.
TimeoutPathError ==
    (StopReturned /\ rnr.taken = "timeout") => rnr.ret # NilErr

\* C14, amended: a Stop that ended through its timeout path returned, for
\* the HTTP runner, a non-nil error that includes the error of the expired
\* shutdown context; for the gRPC runner it issued the forced stop and
\* returned just the serve error it read from the error channel, nil when
\* it read none.
TimeoutPathResult ==
    (StopReturned /\ rnr.taken = "timeout") =>
        IF rnr.kind = "http"
        THEN rnr.ret # NilErr /\ ErrIs(rnr.ret, Leaf("ctx", 1))
        ELSE /\ rnr.forced
             /\ rnr.ret = (IF rnr.got THEN Leaf("serve", 1) ELSE NilErr)

\* A gRPC Stop on a hung server ended by the timer and returned nil, and an
\* HTTP Stop did so with an error.
TimeoutPathResultWitness ==
    /\ StopReturned
    /\ rnr.taken = "timeout"
    /\ rnr.kind = "grpc"
    /\ rnr.ret = NilErr
    /\ rnr.forced

\* The gRPC Stop in progress, or the last one, has left its select.
Resolved == rnr.kind = "grpc" /\ rnr.taken # ""

EventOf(c) ==
    CASE c = "graceful" -> "graceful"
      [] c = "timeout" -> "timer"
      [] c = "cancelled" -> "ctx"

\* Events that had occurred when the select was left.
Occurred == {rnr.order[n] : n \in 1..Len(rnr.order)}

ServeErrorReported ==
    (StopReturned /\ \E g \in Goroutines : rnr.gor[g] = "failed")
        => ErrIs(rnr.ret, Leaf("serve", 1))

\* No Start of the runner launched a serve goroutine: Start was never
\* called, or every call was a gRPC Start that failed to bind.  The error
\* channel is then as constructed.
NeverServed == rnr.gor = <<>>

\* C17: on a runner whose Start was never called, and on a gRPC runner whose
\* Start returned a bind error, the error channel is still empty and open,
\* nothing panics, and a Stop in progress returns (with nil).
StopWithoutStart ==
    /\ [](NeverServed =>
            /\ ~rnr.panicked
            /\ rnr.errBuf = <<>> /\ ~rnr.errClosed
            /\ StopReturned => rnr.ret = NilErr)
    /\ ((NeverServed /\ rnr.sp # "idle") ~> (NeverServed /\ StopReturned))

\* A gRPC runner whose only Start failed to bind has been stopped.
StopWithoutStartWitness ==
    /\ NeverServed
    /\ StopReturned
    /\ rnr.kind = "grpc"
    /\ rnr.starts = 1
    /\ rnr.stops = 1

\* C18: HTTP runner Start returns nil and has only launched the goroutine
\* when it returns: the bind has not been attempted and the error channel is
\* untouched.  A Start of the HTTP runner never returns an error; a bind
\* failure happens in the goroutine and reaches the caller only as a value a
\* later Stop received from the error channel.
HTTPStartReturnsNil ==
    /\ [](rnr.kind = "http" =>
            /\ (rnr.ret # NilErr => rnr.lastOp = "stop")
            /\ ((StopReturned /\ ErrIs(rnr.ret, Leaf("serve", 1))) => rnr.got))
    /\ [][(rnr.kind = "http" /\ rnr'.starts = rnr.starts + 1) =>
            /\ rnr'.ret = NilErr
            /\ rnr'.gor = Append(rnr.gor, "launched")
            /\ rnr'.errBuf = rnr.errBuf /\ rnr'.errClosed = rnr.errClosed]_vars

\* Start of an HTTP runner returned nil, the bind failed in the goroutine
\* afterwards, and the error sits in the error channel.
HTTPStartReturnsNilWitness ==
    /\ rnr.kind = "http"
    /\ rnr.lastOp = "start" /\ rnr.ret = NilErr
    /\ rnr.starts = 1 /\ rnr.stops = 0
    /\ rnr.errBuf = <<Leaf("serve", 1)>>

\* C19: every Start of the gRPC runner either returns the bind error, and
\* then launches no goroutine, or returns nil, and then launches exactly one
\* goroutine; in both cases it leaves the error channel as it was.
GRPCStartBindsFirst ==
    [][(rnr.kind = "grpc" /\ rnr'.starts = rnr.starts + 1) =>
         /\ rnr'.lastOp = "start"
         /\ \/ rnr'.ret = ListenErr(rnr'.starts) /\ rnr'.gor = rnr.gor
            \/ rnr'.ret = NilErr /\ rnr'.gor = Append(rnr.gor, "launched")
         /\ rnr'.errBuf = rnr.errBuf /\ rnr'.errClosed = rnr.errClosed]_vars

\* One Start of a gRPC runner failed to bind and a later one succeeded: one
\* error returned, one goroutine launched.
GRPCStartBindsFirstWitness ==
    /\ rnr.kind = "grpc"
    /\ rnr.starts = 2 /\ rnr.stops = 0
    /\ rnr.lastOp = "start" /\ rnr.ret = ListenErr(2)
    /\ Len(rnr.gor) = 1
    /\ ~rnr.errClosed /\ rnr.errBuf = <<>>

(***************************************************************************)
(* The free function Start(ctx, logger, starts, stops) of lifecycle.go,     *)
(* called with lists of any lengths, as Setup can produce them, and with a  *)
(* context that may be cancelled at any time.  Its calls and their returns  *)
(* are recorded as those of Run are.                                        *)
(***************************************************************************)
MaxFns == 3        \* length of the lists passed to the free function Start

\* The state at the entry of Start with nStarts start functions, nStops stop
\* functions and a context that is or is not already cancelled.
FreeStartCall(nStarts, nStops, cancelled) ==
    [pc |-> "starts",        \* position: starts, inStart, rollback, inRollback, done, panicked
     nStarts |-> nStarts,    \* len(starts)
     nStops |-> nStops,      \* len(stops)
     i |-> 1,                \* index of the range over starts (1-based)
     j |-> 0,                \* index of the rollback loop (1-based)
     err |-> NilErr,         \* the err of the failed start
     result |-> NilErr,      \* the value returned
     ctxDone |-> cancelled,  \* the caller's ctx is done
     log |-> <<>>]           \* calls made and their returns

FreeStartCalls ==
    {FreeStartCall(a, b, c) : a \in 0..MaxFns, b \in 0..MaxFns, c \in BOOLEAN}

InFreeStart == fs.pc \notin {"none", "done", "panicked"}

\* for i, start := range starts { start(ctx) ...
FreeCallStart ==
    /\ fs.pc = "starts"
    /\ fs.i <= fs.nStarts
    /\ fs' = [fs EXCEPT !.log = Append(@, Call("start", fs.i, "caller")),
                        !.pc = "inStart"]
    /\ UNCHANGED <<microVars, rnr>>

\* Variant of FreeStartReturn: a failed start is logged and the range over
\* starts goes on; nothing is rolled back.
FreeStartReturnBestEffort(ok) ==
    /\ fs.pc = "inStart"
    /\ fs' = [fs EXCEPT !.log = Append(@, Ret("start", fs.i, Res(ok, "start", fs.i), "")),
                        !.err = IF ok THEN @ ELSE Leaf("start", fs.i),
                        !.i = @ + 1,
                        !.pc = "starts"]
    /\ UNCHANGED <<microVars, rnr>>

\* start(ctx) returns: on an error the rollback starts at i-1 with
\* rollbackCtx := context.Background().
FreeStartReturn(ok) ==
    /\ fs.pc = "inStart"
    /\ fs' = IF ok
             THEN [fs EXCEPT !.log = Append(@, Ret("start", fs.i, NilErr, "")),
                             !.i = @ + 1,
                             !.pc = "starts"]
             ELSE [fs EXCEPT !.log = Append(@, Ret("start", fs.i, Leaf("start", fs.i), "")),
                             !.err = Leaf("start", fs.i),
                             !.j = RollbackFrom(fs.i),
                             !.pc = "rollback"]
    /\ UNCHANGED <<microVars, rnr>>

\* stops[j](rollbackCtx)
FreeCallRollback ==
    /\ fs.pc = "rollback"
    /\ fs.j >= 1
    /\ fs.j <= fs.nStops
    /\ fs' = [fs EXCEPT !.log = Append(@, Call("stop", fs.j, "background")),
                        !.pc = "inRollback"]
    /\ UNCHANGED <<microVars, rnr>>

\* stops[j] with j outside the slice: runtime panic, Start does not return.
FreeRollbackPanic ==
    /\ fs.pc = "rollback"
    /\ fs.j >= 1
    /\ fs.j > fs.nStops
    /\ fs' = [fs EXCEPT !.pc = "panicked"]
    /\ UNCHANGED <<microVars, rnr>>

\* stops[j] returns: an error is logged, err is left as it is.
FreeRollbackReturn(ok) ==
    /\ fs.pc = "inRollback"
    /\ fs' = [fs EXCEPT !.log = Append(@, Ret("stop", fs.j, Res(ok, "stop", fs.j), "")),
                        !.j = @ - 1,
                        !.pc = "rollback"]
    /\ UNCHANGED <<microVars, rnr>>

\* return err, after the rollback loop
FreeRollbackDone ==
    /\ fs.pc = "rollback"
    /\ fs.j < 1
    /\ fs' = [fs EXCEPT !.result = fs.err, !.pc = "done"]
    /\ UNCHANGED <<microVars, rnr>>

\* return nil, after the range over starts
FreeStartsDone ==
    /\ fs.pc = "starts"
    /\ fs.i > fs.nStarts
    /\ fs' = [fs EXCEPT !.result = NilErr, !.pc = "done"]
    /\ UNCHANGED <<microVars, rnr>>

\* The caller's ctx is cancelled or times out while Start is running.
FreeCancelCtx ==
    /\ InFreeStart
    /\ ~fs.ctxDone
    /\ fs' = [fs EXCEPT !.ctxDone = TRUE]
    /\ UNCHANGED <<microVars, rnr>>

NextFreeStart ==
    \/ FreeCallStart
    \/ \E ok \in BOOLEAN : FreeStartReturn(ok)
    \/ FreeCallRollback
    \/ FreeRollbackPanic
    \/ \E ok \in BOOLEAN : FreeRollbackReturn(ok)
    \/ FreeRollbackDone
    \/ FreeStartsDone
    \/ FreeCancelCtx

\* Either a Micro is configured and run, or the free function Start is
\* called: the two walks side by side.
InitStartup ==
    /\ MicroInit
    /\ rnr = NoRunner
    /\ fs \in {NoCall} \cup FreeStartCalls

NextStartup ==
    \/ fs = NoCall /\ Next
    \/ NextFreeStart

SpecStartup == InitStartup /\ [][NextStartup]_vars

\* Whether a context handed to a callee is done: context.Background() never
\* is, the caller's ctx is when the caller's ctx is.
CtxIsDone(ctx, callerDone) == ctx = "caller" /\ callerDone

Last(s) == s[Len(s)]

(***************************************************************************)
(* Properties of the rollback in Run and in the free function Start.       *)
(***************************************************************************)

\* C20: while a rollback stop is running, in Micro.Run and in the free
\* function Start, the context it was called with is the background
\* context, which is not done, whether or not the caller's context is.
RollbackGetsBackground ==
    /\ pc = "inRollback" =>
          /\ Last(log).ev = "call" /\ Last(log).op = "stop"
          /\ Last(log).ctx = "background"
          /\ ~CtxIsDone(Last(log).ctx, ctxDone)
    /\ fs.pc = "inRollback" =>
          /\ Last(fs.log).ev = "call" /\ Last(fs.log).op = "stop"
          /\ Last(fs.log).ctx = "background"
          /\ ~CtxIsDone(Last(fs.log).ctx, fs.ctxDone)

\* A rollback stop of the free function Start is running although the
\* caller's context is done.
RollbackGetsBackgroundWitness ==
    /\ fs.pc = "inRollback"
    /\ fs.ctxDone
    /\ fs.j = 2

(***************************************************************************)
(* The startup walk as a function of its inputs: given the lengths of the   *)
(* two lists and the calls and returns so far, what happens next.           *)
(***************************************************************************)
WalkCall(op, idx) == [k |-> "call", op |-> op, idx |-> idx]

WalkEnd(how) == [k |-> how, op |-> "", idx |-> 0]

\* After start at+1 failed, or stop at+1 returned: the rollback visits at.
WalkRollback(at, nStops) ==
    IF at < 1 THEN WalkEnd("fail")
    ELSE IF at > nStops THEN WalkEnd("panic")
    ELSE WalkCall("stop", at)

WalkNext(tr, nStarts, nStops) ==
    IF tr = <<>>
    THEN IF nStarts >= 1 THEN WalkCall("start", 1) ELSE WalkEnd("ok")
    ELSE LET last == tr[Len(tr)]
         IN  IF last.ev = "call" THEN WalkEnd("wait")
             ELSE IF last.op = "start"
             THEN IF last.e = NilErr
                  THEN IF last.idx < nStarts THEN WalkCall("start", last.idx + 1)
                       ELSE WalkEnd("ok")
                  ELSE WalkRollback(last.idx - 1, nStops)
             ELSE WalkRollback(last.idx - 1, nStops)

\* A recorded history follows the walk: every call in it is the one the
\* walk prescribes after what precedes it, and the walk has ended the way
\* `phase` says ("running" while it has not ended).
FollowsWalk(tr, nStarts, nStops, phase) ==
    /\ \A n \in 1..Len(tr) :
          tr[n].ev = "call" =>
              WalkNext(SubSeq(tr, 1, n - 1), nStarts, nStops) = WalkCall(tr[n].op, tr[n].idx)
    /\ phase # "running" => WalkNext(tr, nStarts, nStops) = WalkEnd(phase)

\* The part of Run's history that belongs to the lifecycle startup: the
\* starts, and the stops when a start has failed (Run then never reaches the
\* teardown).
RunStartupTrace ==
    LET failed == \E k \in 1..Len(startFns) : StartFailedAt(k)
    IN  SelectSeq(log, LAMBDA x : x.op = "start" \/ (x.op = "stop" /\ failed))

\* How the lifecycle startup of Run has ended.
RunStartupPhase ==
    IF pc \in {"config", "starts", "inStart", "rollback", "inRollback"} THEN "running"
    ELSE IF pc = "panicked" THEN "panic"
    ELSE IF pc = "done" /\ result.k = "wrap" /\ result.tag = "lifecycle start" THEN "fail"
    ELSE "ok"

\* How the free function Start has ended.
FreeStartPhase ==
    IF fs.pc = "panicked" THEN "panic"
    ELSE IF fs.pc = "done" THEN (IF fs.result # NilErr THEN "fail" ELSE "ok")
    ELSE "running"

(***************************************************************************)
(* Properties of the free functions of lifecycle.go.                       *)
(***************************************************************************)

\* C21: the startup phase of Micro.Run and the free function Start follow
\* the same walk, which is determined by the lengths of the lists and the
\* results of the functions: starts in index order until the first failure
\* k, then stops k-1 down to 0, each once; both end with an error exactly
\* when a start failed.
StartMatchesRun ==
    /\ pc # "config" =>
          FollowsWalk(RunStartupTrace, Len(startFns), Len(stopFns), RunStartupPhase)
    /\ fs # NoCall =>
          FollowsWalk(fs.log, fs.nStarts, fs.nStops, FreeStartPhase)

\* The free function Start, given three starts of which the third failed and
\* three stops, has stopped 2 then 1 and returned an error.
StartMatchesRunWitness ==
    /\ fs # NoCall
    /\ fs.pc = "done"
    /\ fs.nStarts = 3 /\ fs.nStops = 3
    /\ fs.result # NilErr
    /\ [n \in 1..Len(fs.log) |-> <<fs.log[n].ev, fs.log[n].op, fs.log[n].idx>>] =
         << <<"call", "start", 1>>, <<"ret", "start", 1>>,
            <<"call", "start", 2>>, <<"ret", "start", 2>>,
            <<"call", "start", 3>>, <<"ret", "start", 3>>,
            <<"call", "stop", 2>>, <<"ret", "stop", 2>>,
            <<"call", "stop", 1>>, <<"ret", "stop", 1>> >>

\* C22: when the free function Start has returned after a start failed and
\* a rollback stop failed too, the error it returned contains the start
\* error and the error of every failed rollback stop.
FreeRollbackErrorsJoined ==
    (fs # NoCall /\ fs.pc = "done") =>
        \A n \in 1..Len(fs.log) :
            (fs.log[n].ev = "ret" /\ fs.log[n].e # NilErr) =>
                ErrIs(fs.result, fs.log[n].e)

(***************************************************************************)
(* The free function Shutdown(ctx, srv, logger, stops) of lifecycle.go,     *)
(* called with a nil, a live or an already cancelled ctx, with or without a *)
(* server, whose work in flight may never finish, and with any number of    *)
(* stop functions.                                                          *)
(***************************************************************************)
CtxInputs == {"nil", "live", "cancelled"}

\* The state at the entry of Shutdown.
FreeShutdownCall(ctxIn, hasSrv, busy, nStops) ==
    [pc |-> "sdEntry",       \* position: sdEntry, sdServer, sdInServer, sdStops, sdInStop, sdDone
     ctxIn |-> ctxIn,        \* the ctx argument as given
     parent |-> "",          \* the ctx shutdownCtx is derived from: caller or background
     callerDone |-> (ctxIn = "cancelled"),   \* the caller's ctx is done
     timer |-> "off",        \* the 5-second timeout of shutdownCtx
     hasSrv |-> hasSrv,      \* srv != nil
     inflight |-> busy,      \* the server has work in flight
     doneAtCall |-> FALSE,   \* shutdownCtx was done when srv.Shutdown was called
     nStops |-> nStops,      \* len(stops)
     i |-> 0,                \* index of the loop over stops (1-based)
     log |-> <<>>]           \* calls made and their returns

FreeShutdownCalls ==
    {FreeShutdownCall(c, s, b, n) :
        c \in CtxInputs, s \in BOOLEAN, b \in BOOLEAN, n \in 0..MaxFns}

\* if ctx == nil { ctx = context.Background() }
ShutdownParent(ctxIn) == IF ctxIn = "nil" THEN "background" ELSE "caller"

\* shutdownCtx is done: its timeout expired or its parent is done.
ShutdownCtxDone == fs.timer = "fired" \/ CtxIsDone(fs.parent, fs.callerDone)

\* Entry: the nil ctx is replaced and shutdownCtx derived with the timeout.
SdEnter ==
    /\ fs.pc = "sdEntry"
    /\ fs' = [fs EXCEPT !.parent = ShutdownParent(fs.ctxIn),
                        !.timer = "running",
                        !.i = fs.nStops,
                        !.pc = IF fs.hasSrv THEN "sdServer" ELSE "sdStops"]
    /\ UNCHANGED <<microVars, rnr>>

\* srv.Shutdown(shutdownCtx)
SdCallShutdown ==
    /\ fs.pc = "sdServer"
    /\ fs' = [fs EXCEPT !.log = Append(@, Call("shutdown", 0, fs.parent)),
                        !.doneAtCall = ShutdownCtxDone,
                        !.pc = "sdInServer"]
    /\ UNCHANGED <<microVars, rnr>>

\* srv.Shutdown finds no open connection and returns nil.
SdServerIdle ==
    /\ fs.pc = "sdInServer"
    /\ ~fs.inflight
    /\ fs' = [fs EXCEPT !.log = Append(@, Ret("shutdown", 0, NilErr, "graceful")),
                        !.pc = "sdStops"]
    /\ UNCHANGED <<microVars, rnr>>

\* srv.Shutdown finds work in flight and shutdownCtx done: it returns the
\* context's error, which is logged.
SdServerCtxDone ==
    /\ fs.pc = "sdInServer"
    /\ fs.inflight
    /\ ShutdownCtxDone
    /\ fs' = [fs EXCEPT
                !.log = Append(@, Ret("shutdown", 0, Leaf("ctx", 0),
                                      IF CtxIsDone(fs.parent, fs.callerDone)
                                      THEN "cancelled" ELSE "timeout")),
                !.pc = "sdStops"]
    /\ UNCHANGED <<microVars, rnr>>

\* The work in flight finishes while srv.Shutdown waits.
SdRequestDone ==
    /\ fs.pc = "sdInServer"
    /\ fs.inflight
    /\ fs' = [fs EXCEPT !.inflight = FALSE]
    /\ UNCHANGED <<microVars, rnr>>

\* Five seconds pass while srv.Shutdown waits.
SdTimerFire ==
    /\ fs.pc = "sdInServer"
    /\ fs.timer = "running"
    /\ fs' = [fs EXCEPT !.timer = "fired"]
    /\ UNCHANGED <<microVars, rnr>>

\* The caller's ctx is cancelled while Shutdown is running.
SdCancelCtx ==
    /\ fs.pc \in {"sdEntry", "sdServer", "sdInServer", "sdStops", "sdInStop"}
    /\ fs.ctxIn = "live"
    /\ ~fs.callerDone
    /\ fs' = [fs EXCEPT !.callerDone = TRUE]
    /\ UNCHANGED <<microVars, rnr>>

\* stops[i](stopCtx) with stopCtx := context.Background()
SdCallStop ==
    /\ fs.pc = "sdStops"
    /\ fs.i >= 1
    /\ fs' = [fs EXCEPT !.log = Append(@, Call("stop", fs.i, "background")),
                        !.pc = "sdInStop"]
    /\ UNCHANGED <<microVars, rnr>>

\* Variant of SdStopReturn: the first stop error ends the loop.
SdStopReturnAbort(ok) ==
    /\ fs.pc = "sdInStop"
    /\ fs' = [fs EXCEPT !.log = Append(@, Ret("stop", fs.i, Res(ok, "stop", fs.i), "")),
                        !.i = IF ok THEN ReverseNext(fs.i) ELSE 0,
                        !.pc = "sdStops"]
    /\ UNCHANGED <<microVars, rnr>>

\* stops[i] returns: an error is logged and the loop goes on.
SdStopReturn(ok) ==
    /\ fs.pc = "sdInStop"
    /\ fs' = [fs EXCEPT !.log = Append(@, Ret("stop", fs.i, Res(ok, "stop", fs.i), "")),
                        !.i = ReverseNext(fs.i),
                        !.pc = "sdStops"]
    /\ UNCHANGED <<microVars, rnr>>

\* The loop over stops is exhausted: Shutdown returns.
SdReturn ==
    /\ fs.pc = "sdStops"
    /\ fs.i < 1
    /\ fs' = [fs EXCEPT !.pc = "sdDone"]
    /\ UNCHANGED <<microVars, rnr>>

InitShutdown ==
    /\ MicroInit
    /\ rnr = NoRunner
    /\ fs \in FreeShutdownCalls

NextShutdown ==
    \/ SdEnter
    \/ SdCallShutdown
    \/ SdServerIdle
    \/ SdServerCtxDone
    \/ SdRequestDone
    \/ SdTimerFire
    \/ SdCancelCtx
    \/ SdCallStop
    \/ \E ok \in BOOLEAN : SdStopReturn(ok)
    \/ SdReturn

SpecShutdown == InitShutdown /\ [][NextShutdown]_vars

\* Calls recorded by Shutdown, in order.
ShutdownCalls ==
    LET cs == SelectSeq(fs.log, LAMBDA x : x.ev = "call")
    IN  [n \in 1..Len(cs) |-> <<cs[n].op, cs[n].idx>>]

\* The calls Shutdown is to make: the server shutdown unless srv is nil,
\* then the stops from the last to the first.
ExpectedShutdown ==
    (IF fs.hasSrv THEN <<<<"shutdown", 0>>>> ELSE <<>>) \o Down("stop", fs.nStops)

\* C23: the free function Shutdown calls the server shutdown first, unless
\* the server is nil, and then every stop function once, from the last to
\* the first, whatever the server shutdown and the earlier stops returned;
\* when it has returned all of them have been called.
ShutdownWalk ==
    /\ IsPrefix(ShutdownCalls, ExpectedShutdown)
    /\ fs.pc = "sdDone" => ShutdownCalls = ExpectedShutdown

\* Shutdown has returned after the server shutdown failed and the stops 3,
\* 2, 1 were called although stop 3 and stop 2 failed.
ShutdownWalkWitness ==
    /\ fs.pc = "sdDone"
    /\ fs.hasSrv
    /\ fs.nStops = 3
    /\ \E n \in 1..Len(fs.log) : fs.log[n].op = "shutdown" /\ fs.log[n].e # NilErr
    /\ \E n \in 1..Len(fs.log) : fs.log[n].op = "stop" /\ fs.log[n].idx = 3 /\ fs.log[n].e # NilErr
    /\ \E n \in 1..Len(fs.log) : fs.log[n].op = "stop" /\ fs.log[n].idx = 2 /\ fs.log[n].e # NilErr
    /\ ShutdownCalls = <<<<"shutdown", 0>>, <<"stop", 3>>, <<"stop", 2>>, <<"stop", 1>>>>

\* C24: when Shutdown is called with a nil or an already cancelled ctx, the
\* context handed to the server's shutdown is not done when the shutdown
\* begins, and the shutdown is never cut short by a cancellation: it ends
\* gracefully or through the 5-second timeout.
ShutdownIgnoresCancellation ==
    fs.ctxIn \in {"nil", "cancelled"} =>
        /\ ~fs.doneAtCall
        /\ \A n \in 1..Len(fs.log) : fs.log[n].via # "cancelled"

(***************************************************************************)
(* LifecycleHooks: a value with an OnStart and an OnStop function, either   *)
(* of which may be nil, on which a caller calls Start and Stop.             *)
(***************************************************************************)
MaxHookCalls == 3  \* calls of Start or Stop on one LifecycleHooks value

\* LifecycleHooks{OnStart: ..., OnStop: ...}
HooksValue(hasOnStart, hasOnStop) ==
    [pc |-> "hkIdle",            \* position of the caller: hkIdle, hkInStart, hkInStop
     onStart |-> hasOnStart,     \* OnStart != nil
     onStop |-> hasOnStop,       \* OnStop != nil
     calls |-> 0,                \* calls of Start or Stop made
     log |-> <<>>]               \* calls of the methods and of the functions, and returns

HooksValues == {HooksValue(a, b) : a \in BOOLEAN, b \in BOOLEAN}

\* h.Start(ctx) with OnStart == nil: returns nil.
HooksStartNil ==
    /\ fs.pc = "hkIdle"
    /\ fs.calls < MaxHookCalls
    /\ ~fs.onStart
    /\ fs' = [fs EXCEPT !.log = @ \o <<Call("Start", 0, "caller"), Ret("Start", 0, NilErr, "")>>,
                        !.calls = @ + 1]
    /\ UNCHANGED <<microVars, rnr>>

\* h.Start(ctx) with OnStart != nil: h.OnStart(ctx) is called.
HooksStartCall ==
    /\ fs.pc = "hkIdle"
    /\ fs.calls < MaxHookCalls
    /\ fs.onStart
    /\ fs' = [fs EXCEPT !.log = @ \o <<Call("Start", 0, "caller"), Call("OnStart", 0, "caller")>>,
                        !.calls = @ + 1,
                        !.pc = "hkInStart"]
    /\ UNCHANGED <<microVars, rnr>>

\* Variant of HooksStartReturn: Start drops the result of OnStart and returns
\* nil.
HooksStartReturnNil(ok) ==
    /\ fs.pc = "hkInStart"
    /\ fs' = [fs EXCEPT !.log = @ \o <<Ret("OnStart", 0, Res(ok, "OnStart", 0), ""),
                                       Ret("Start", 0, NilErr, "")>>,
                        !.pc = "hkIdle"]
    /\ UNCHANGED <<microVars, rnr>>

\* h.OnStart returns and Start returns its result.
HooksStartReturn(ok) ==
    /\ fs.pc = "hkInStart"
    /\ fs' = [fs EXCEPT !.log = @ \o <<Ret("OnStart", 0, Res(ok, "OnStart", 0), ""),
                                       Ret("Start", 0, Res(ok, "OnStart", 0), "")>>,
                        !.pc = "hkIdle"]
    /\ UNCHANGED <<microVars, rnr>>

\* h.Stop(ctx) with OnStop == nil: returns nil.
HooksStopNil ==
    /\ fs.pc = "hkIdle"
    /\ fs.calls < MaxHookCalls
    /\ ~fs.onStop
    /\ fs' = [fs EXCEPT !.log = @ \o <<Call("Stop", 0, "caller"), Ret("Stop", 0, NilErr, "")>>,
                        !.calls = @ + 1]
    /\ UNCHANGED <<microVars, rnr>>

\* h.Stop(ctx) with OnStop != nil: h.OnStop(ctx) is called.
HooksStopCall ==
    /\ fs.pc = "hkIdle"
    /\ fs.calls < MaxHookCalls
    /\ fs.onStop
    /\ fs' = [fs EXCEPT !.log = @ \o <<Call("Stop", 0, "caller"), Call("OnStop", 0, "caller")>>,
                        !.calls = @ + 1,
                        !.pc = "hkInStop"]
    /\ UNCHANGED <<microVars, rnr>>

\* h.OnStop returns and Stop returns its result.
HooksStopReturn(ok) ==
    /\ fs.pc = "hkInStop"
    /\ fs' = [fs EXCEPT !.log = @ \o <<Ret("OnStop", 0, Res(ok, "OnStop", 0), ""),
                                       Ret("Stop", 0, Res(ok, "OnStop", 0), "")>>,
                        !.pc = "hkIdle"]
    /\ UNCHANGED <<microVars, rnr>>

InitHooks ==
    /\ MicroInit
    /\ rnr = NoRunner
    /\ fs \in HooksValues

NextHooks ==
    \/ HooksStartNil
    \/ HooksStartCall
    \/ \E ok \in BOOLEAN : HooksStartReturn(ok)
    \/ HooksStopNil
    \/ HooksStopCall
    \/ \E ok \in BOOLEAN : HooksStopReturn(ok)

SpecHooks == InitHooks /\ [][NextHooks]_vars

\* Number of calls of op recorded.
HookCallCount(op) ==
    Cardinality({n \in 1..Len(fs.log) : fs.log[n].ev = "call" /\ fs.log[n].op = op})

\* The method `method` adapts the function `fn`, present or not: the function
\* is called once per call of the method when present and never otherwise,
\* always right after the method was entered, and every return of the
\* method is nil without a function and the function's result with one.
Adapts(method, fn, present) ==
    /\ HookCallCount(fn) = IF present THEN HookCallCount(method) ELSE 0
    /\ \A n \in 1..Len(fs.log) :
          (fs.log[n].ev = "call" /\ fs.log[n].op = fn) =>
              n > 1 /\ fs.log[n - 1] = Call(method, 0, "caller")
    /\ \A n \in 1..Len(fs.log) :
          (fs.log[n].ev = "ret" /\ fs.log[n].op = method) =>
              /\ n > 1
              /\ IF present
                 THEN fs.log[n - 1] = Ret(fn, 0, fs.log[n].e, "")
                 ELSE fs.log[n - 1] = Call(method, 0, "caller") /\ fs.log[n].e = NilErr

\* C25: LifecycleHooks.Start returns nil without calling anything when
\* OnStart is nil and otherwise calls OnStart exactly once and returns its
\* result; Stop does the same with OnStop; Start never calls OnStop and Stop
\* never calls OnStart.
HooksAdapt ==
    /\ Adapts("Start", "OnStart", fs.onStart)
    /\ Adapts("Stop", "OnStop", fs.onStop)

\* On a value with OnStart only: Start returned the error of OnStart, and
\* Stop returned nil without calling anything.
HooksAdaptWitness ==
    /\ fs.onStart /\ ~fs.onStop
    /\ fs.log = <<Call("Start", 0, "caller"), Call("OnStart", 0, "caller"),
                  Ret("OnStart", 0, Leaf("OnStart", 0), ""), Ret("Start", 0, Leaf("OnStart", 0), ""),
                  Call("Stop", 0, "caller"), Ret("Stop", 0, NilErr, "")>>

(***************************************************************************)
(* Properties of the teardown of Run together with the runners.            *)
(***************************************************************************)

\* C26: in the teardown of Run no Stop of an HTTP or gRPC runner is ended by
\* the cancellation of the context: it ends because the server finished its
\* work in flight or because the 5-second bound expired.
TeardownGraceWindow ==
    \A n \in 1..Len(log) :
        (log[n].ev = "ret" /\ log[n].op = "rstop" /\ runners[log[n].idx] \in {"http", "grpc"})
            => log[n].via \in {"graceful", "timeout"}

\* The error channel is used in order: at most one value is buffered, a
\* goroutine about to send finds the channel open with room for the value,
\* a goroutine about to close finds it open, and nothing has panicked.
ChannelInOrder ==
    /\ ~rnr.panicked
    /\ Len(rnr.errBuf) <= 1
    /\ \A g \in Goroutines :
          /\ rnr.gor[g] \in {"failed", "refused"} =>
                CanSend /\ ~rnr.errClosed /\ rnr.errBuf = <<>>
          /\ rnr.gor[g] = "closing" => ~rnr.errClosed
    /\ rnr.errClosed => \E g \in Goroutines : rnr.gor[g] = "exited"

\* C27 as stated: after any sequence of Start and Stop calls on an HTTP or
\* gRPC runner the error channel is used in order.
ChannelDiscipline == ChannelInOrder

\* C27, amended: on a runner whose Start calls have launched at most one
\* serve goroutine (Start called once, as Run does, or gRPC Starts of which
\* only one bound its listener), whatever Stop calls are made, the
\* goroutine sends at most one error, never blocks on the send, closes the
\* channel once, and never sends on or closes a closed channel.
ChannelDisciplineOneServe ==
    Len(rnr.gor) <= 1 => ChannelInOrder

\* The only goroutine of a runner has sent its error and closed the channel
\* although no Stop has read it.
ChannelDisciplineOneServeWitness ==
    /\ rnr.kind \in {"http", "grpc"}
    /\ rnr.gor = <<"exited">>
    /\ rnr.errBuf = <<Leaf("serve", 1)>>
    /\ rnr.errClosed
    /\ rnr.stops = 0
    /\ rnr.starts = 2


(***************************************************************************)
(* Options applied from several call sites, at the level of Micro.mu.      *)
(* Each call site either applies one option to the orchestrator or calls   *)
(* Run, whose first lines take the snapshot of the lists.  The variable fs *)
(* holds the orchestrator (its lock and its four lists) and, per call      *)
(* site, the code the site executes and its position in it.  An entry of a *)
(* list is the number of the site that registered it; 0 is a nil entry.    *)
(***************************************************************************)
MaxSites == 2

Sites == 1..MaxSites

\* micro.mu.Lock(); <list> = append(<list>, x); micro.mu.Unlock()
LockedAppend(instr) == <<"Lock", instr, "Unlock">>

\* if startable, ok := m.(Startable); ok { ms.addStart(startable.Start) }
\* if stoppable, ok := m.(Stoppable); ok { ms.addStop(stoppable.Stop) }
ModuleHooks(hasStart, hasStop) ==
    (IF hasStart THEN LockedAppend("appendStart") ELSE <<>>)
        \o (IF hasStop THEN LockedAppend("appendStop") ELSE <<>>)

\* The instructions on mu and on the lists that a call site executes, in
\* order.  WithHTTPServer holds the lock from its first lines to its return
\* (defer) and calls addStart / addStop inside; WithGRPCServer takes no lock
\* of its own, and its append to ms.runners is a read of the slice followed
\* by a write.
SiteCode(kind, hasStart, hasStop) ==
    CASE kind = "runner" -> LockedAppend("appendRunner")
      [] kind = "shutdown" -> LockedAppend("appendShutdown")
      [] kind = "lifecycle" -> ModuleHooks(hasStart, hasStop)
      [] kind = "http" -> <<"Lock", "httpConfigured">> \o ModuleHooks(hasStart, hasStop)
                              \o <<"appendRunner", "Unlock">>
      [] kind = "grpc" -> ModuleHooks(hasStart, hasStop) \o <<"readRunners", "writeRunners">>
      [] kind = "run" -> <<"RLock", "snapshot", "RUnlock">>

SiteKinds == {"runner", "shutdown", "lifecycle", "http", "grpc", "run"}

\* A component, module or service brings its Start, its Stop, both or none;
\* the other kinds bring neither.
SiteCall(kind, hasStart, hasStop) ==
    [kind |-> kind,
     hasStart |-> hasStart,
     hasStop |-> hasStop,
     code |-> SiteCode(kind, hasStart, hasStop),
     at |-> 1,                  \* position in code; Len(code) + 1 after the return
     failed |-> FALSE,          \* the option returned an error
     tmp |-> <<>>,              \* ms.runners as read by the unlocked append
     snap |-> <<>>]             \* Run's copy of micro.runners

SiteCalls ==
    {SiteCall(kind, a, b) : kind \in {"lifecycle", "http", "grpc"}, a \in BOOLEAN, b \in BOOLEAN}
        \union {SiteCall(kind, FALSE, FALSE) : kind \in {"runner", "shutdown", "run"}}

OptionsValue(calls) ==
    [pc |-> "options",
     writer |-> 0,              \* the site holding mu for writing, 0 when none
     readers |-> {},            \* the sites holding mu for reading
     runners |-> <<>>,
     shutdown |-> <<>>,
     startFuncs |-> <<>>,
     stopFuncs |-> <<>>,
     httpConfigured |-> FALSE,
     site |-> calls]

Returned(t) == fs.site[t].at > Len(fs.site[t].code)

Instr(t) == IF Returned(t) THEN "return" ELSE fs.site[t].code[fs.site[t].at]

Advance(t) == [fs.site EXCEPT ![t].at = @ + 1]

\* micro.mu.Lock(): waits until nobody holds the lock, the caller included.
MuLock(t) ==
    /\ Instr(t) = "Lock"
    /\ fs.writer = 0
    /\ fs.readers = {}
    /\ fs' = [fs EXCEPT !.writer = t, !.site = Advance(t)]
    /\ UNCHANGED <<microVars, rnr>>

\* micro.mu.Unlock()
MuUnlock(t) ==
    /\ Instr(t) = "Unlock"
    /\ fs' = [fs EXCEPT !.writer = 0, !.site = Advance(t)]
    /\ UNCHANGED <<microVars, rnr>>

\* micro.mu.RLock()
MuRLock(t) ==
    /\ Instr(t) = "RLock"
    /\ fs.writer = 0
    /\ fs' = [fs EXCEPT !.readers = @ \union {t}, !.site = Advance(t)]
    /\ UNCHANGED <<microVars, rnr>>

\* micro.mu.RUnlock()
MuRUnlock(t) ==
    /\ Instr(t) = "RUnlock"
    /\ fs' = [fs EXCEPT !.readers = @ \ {t}, !.site = Advance(t)]
    /\ UNCHANGED <<microVars, rnr>>

\* if ms.httpConfigured { return errors.New(...) }; ms.httpConfigured = true
\* The return runs the deferred Unlock.
HTTPConfigured(t) ==
    /\ Instr(t) = "httpConfigured"
    /\ IF fs.httpConfigured
          THEN fs' = [fs EXCEPT !.writer = 0,
                                !.site = [@ EXCEPT ![t].at = Len(fs.site[t].code) + 1,
                                                   ![t].failed = TRUE]]
          ELSE fs' = [fs EXCEPT !.httpConfigured = TRUE, !.site = Advance(t)]
    /\ UNCHANGED <<microVars, rnr>>

\* micro.runners = append(micro.runners, r), with mu held by the caller.
AppendRunner(t) ==
    /\ Instr(t) = "appendRunner"
    /\ fs' = [fs EXCEPT !.runners = addRunner(@, t), !.site = Advance(t)]
    /\ UNCHANGED <<microVars, rnr>>

\* micro.shutdown = append(micro.shutdown, fn)
AppendShutdown(t) ==
    /\ Instr(t) = "appendShutdown"
    /\ fs' = [fs EXCEPT !.shutdown = addShutdown(@, t), !.site = Advance(t)]
    /\ UNCHANGED <<microVars, rnr>>

\* micro.startFuncs = append(micro.startFuncs, fn)
AppendStart(t) ==
    /\ Instr(t) = "appendStart"
    /\ fs' = [fs EXCEPT !.startFuncs = addStart(@, t), !.site = Advance(t)]
    /\ UNCHANGED <<microVars, rnr>>

\* micro.stopFuncs = append(micro.stopFuncs, fn)
AppendStop(t) ==
    /\ Instr(t) = "appendStop"
    /\ fs' = [fs EXCEPT !.stopFuncs = addStop(@, t), !.site = Advance(t)]
    /\ UNCHANGED <<microVars, rnr>>

\* ms.runners = append(ms.runners, ...) in WithGRPCServer, first half: the
\* slice is read.
ReadRunners(t) ==
    /\ Instr(t) = "readRunners"
    /\ fs' = [fs EXCEPT !.site = [Advance(t) EXCEPT ![t].tmp = fs.runners]]
    /\ UNCHANGED <<microVars, rnr>>

\* Second half: the slice that was read, with the new runner appended, is
\* stored.
WriteRunners(t) ==
    /\ Instr(t) = "writeRunners"
    /\ fs' = [fs EXCEPT !.runners = Append(fs.site[t].tmp, t), !.site = Advance(t)]
    /\ UNCHANGED <<microVars, rnr>>

\* The sites that are storing ms.runners with no lock held.
Storing == {u \in Sites : Instr(u) = "writeRunners"}

\* What a read of micro.runners can yield: the slice as it is; and, when a
\* store of the slice is under way with no lock held, also the slice being
\* stored or a mix of both slice headers, whose last entry was never set.
RunnersRead ==
    {fs.runners}
        \union {Append(fs.site[u].tmp, u) : u \in Storing}
        \union {Append(fs.site[u].tmp, 0) : u \in Storing}

\* runners := append([]Runner(nil), micro.runners...) and the three other
\* copies of Run, with mu held for reading.
Snapshot(t) ==
    /\ Instr(t) = "snapshot"
    /\ \E rs \in RunnersRead :
          fs' = [fs EXCEPT !.site = [Advance(t) EXCEPT ![t].snap = rs]]
    /\ UNCHANGED <<microVars, rnr>>

SiteStep(t) ==
    \/ MuLock(t)
    \/ MuUnlock(t)
    \/ MuRLock(t)
    \/ MuRUnlock(t)
    \/ HTTPConfigured(t)
    \/ AppendRunner(t)
    \/ AppendShutdown(t)
    \/ AppendStart(t)
    \/ AppendStop(t)
    \/ ReadRunners(t)
    \/ WriteRunners(t)
    \/ Snapshot(t)

InitOptions ==
    /\ MicroInit
    /\ rnr = NoRunner
    /\ \E calls \in [Sites -> SiteCalls] : fs = OptionsValue(calls)

NextOptions == \E t \in Sites : SiteStep(t)

SpecOptions == InitOptions /\ [][NextOptions]_vars

\* Every call site is a goroutine that runs whenever it can.
FairnessOptions == \A t \in Sites : WF_vars(SiteStep(t))

SpecOptionsLive == InitOptions /\ [][NextOptions]_vars /\ FairnessOptions

\* The entries of a sequence.
Entries(s) == {s[n] : n \in 1..Len(s)}

\* The option applied at site t has returned nil with everything it
\* registers in the lists.
Applied(t) ==
    /\ Returned(t)
    /\ ~fs.site[t].failed
    /\ fs.site[t].hasStart => t \in Entries(fs.startFuncs)
    /\ fs.site[t].hasStop => t \in Entries(fs.stopFuncs)
    /\ fs.site[t].kind \in {"runner", "http", "grpc"} => t \in Entries(fs.runners)
    /\ fs.site[t].kind = "shutdown" => t \in Entries(fs.shutdown)

IsOption(t) == fs.site[t].kind # "run"

HasHooks(t) == fs.site[t].hasStart \/ fs.site[t].hasStop

\* C28: WithHTTPServer applied with a module that implements Startable or
\* Stoppable returns, and unless it returns the "already configured" error
\* it has appended the module's Start and Stop and its runner.
HTTPModuleOptionReturns ==
    \A t \in Sites :
        (fs.site[t].kind = "http" /\ HasHooks(t))
            ~> (Returned(t) /\ (fs.site[t].failed \/ Applied(t)))

\* C29: every append to a list of the orchestrator is made with mu held for
\* writing by the site that appends, no option that returned nil has lost
\* an entry, and no snapshot of Run holds anything but registered runners.
RegistrationsLocked ==
    /\ \A t \in Sites :
          Instr(t) \in {"appendRunner", "appendShutdown", "appendStart",
                        "appendStop", "writeRunners"} => fs.writer = t
    /\ \A t \in Sites : (IsOption(t) /\ Returned(t) /\ ~fs.site[t].failed) => Applied(t)
    /\ \A t \in Sites : Entries(fs.site[t].snap) \subseteq Entries(fs.runners)


(***************************************************************************)
(* Bounds of the rollback.                                                 *)
(***************************************************************************)
\* C30: whatever start and stop lists registration has produced, the
\* rollback of Micro.Run and of the free function Start reads the stop list
\* only at positions it has: neither ever panics with an index out of range.
RollbackInBounds ==
    /\ pc # "panicked"
    /\ fs.pc # "panicked"

====
